---- MODULE Spec2Model ----
(***************************************************************************)
(* A model of generate_tech_tree.py: OldWorldParser (the passes of         *)
(* parse_all, identify_bonus_techs, export_data), generate_html and main.  *)
(*                                                                         *)
(* Texts are sequences of one-character strings, so that the substring     *)
(* tests, replacements, case conversions and number parsing of the source  *)
(* are computed character by character.                                    *)
(***************************************************************************)
EXTENDS Integers, Sequences, FiniteSets, TLC

\* ------------------------------------------------------------------------
\* Python values

\* None, and a value that is not None (a one-element wrapper, so that the
\* empty text and None stay different values).
PyNone == <<>>
Some(v) == <<v>>
IsNone(o) == Len(o) = 0
Val(o) == o[1]

\* ------------------------------------------------------------------------
\* str: the methods of Python's str that the source uses

UpperLetters == <<"A","B","C","D","E","F","G","H","I","J","K","L","M","N","O","P","Q","R","S","T","U","V","W","X","Y","Z">>
LowerLetters == <<"a","b","c","d","e","f","g","h","i","j","k","l","m","n","o","p","q","r","s","t","u","v","w","x","y","z">>
Digits == <<"0","1","2","3","4","5","6","7","8","9">>

SeqRange(s) == {s[i] : i \in 1..Len(s)}
UpperSet == SeqRange(UpperLetters)
LowerSet == SeqRange(LowerLetters)
DigitSet == SeqRange(Digits)

IndexIn(c, s) == CHOOSE i \in 1..Len(s) : s[i] = c
UpperOf == [c \in LowerSet |-> UpperLetters[IndexIn(c, LowerLetters)]]
LowerOf == [c \in UpperSet |-> LowerLetters[IndexIn(c, UpperLetters)]]
DigitValue == [c \in DigitSet |-> IndexIn(c, Digits) - 1]

ToUpper(c) == IF c \in LowerSet THEN UpperOf[c] ELSE c
ToLower(c) == IF c \in UpperSet THEN LowerOf[c] ELSE c
IsCased(c) == c \in UpperSet \cup LowerSet
IsSpace(c) == c = " "

\* s.upper(), s.lower()
str_upper(s) == [i \in 1..Len(s) |-> ToUpper(s[i])]
str_lower(s) == [i \in 1..Len(s) |-> ToLower(s[i])]

\* s.title(): a cased character is lowered after a cased character and
\* raised anywhere else.
str_title(s) ==
  [i \in 1..Len(s) |->
     IF i > 1 /\ IsCased(s[i - 1]) THEN ToLower(s[i]) ELSE ToUpper(s[i])]

\* s.startswith(p)
str_startswith(s, p) == Len(p) <= Len(s) /\ SubSeq(s, 1, Len(p)) = p

\* p in s
Contains(p, s) ==
  \E i \in 0..(Len(s) - Len(p)) : SubSeq(s, i + 1, i + Len(p)) = p

\* s.replace(old, new) for a non-empty old: the leftmost occurrences, not
\* overlapping.
RECURSIVE str_replace(_, _, _)
str_replace(s, old, new) ==
  IF Len(s) < Len(old) THEN s
  ELSE IF SubSeq(s, 1, Len(old)) = old
       THEN new \o str_replace(SubSeq(s, Len(old) + 1, Len(s)), old, new)
       ELSE <<s[1]>> \o str_replace(Tail(s), old, new)

\* s.strip()
RECURSIVE str_lstrip(_)
str_lstrip(s) ==
  IF Len(s) > 0 /\ IsSpace(s[1]) THEN str_lstrip(Tail(s)) ELSE s

RECURSIVE str_rstrip(_)
str_rstrip(s) ==
  IF Len(s) > 0 /\ IsSpace(s[Len(s)])
  THEN str_rstrip(SubSeq(s, 1, Len(s) - 1)) ELSE s

str_strip(s) == str_rstrip(str_lstrip(s))

\* str(n) for an integer n
RECURSIVE NatStr(_)
NatStr(n) ==
  IF n < 10 THEN <<Digits[n + 1]>> ELSE NatStr(n \div 10) \o <<Digits[(n % 10) + 1]>>

IntStr(n) == IF n < 0 THEN <<"-">> \o NatStr(0 - n) ELSE NatStr(n)

\* str(o) of an optional text, as an f-string formats it
PyStr(o) == IF IsNone(o) THEN <<"N","o","n","e">> ELSE Val(o)

\* int(s): Some(n), or PyNone where Python raises ValueError.  Surrounding
\* whitespace is dropped, one sign is allowed, and the digits may be grouped
\* by single underscores.
RECURSIVE DigitsValue(_, _)
DigitsValue(s, acc) ==
  IF Len(s) = 0 THEN acc
  ELSE IF s[1] = "_" THEN DigitsValue(Tail(s), acc)
       ELSE DigitsValue(Tail(s), acc * 10 + DigitValue[s[1]])

IsDigitString(s) ==
  /\ Len(s) > 0
  /\ s[1] \in DigitSet
  /\ s[Len(s)] \in DigitSet
  /\ \A i \in 1..Len(s) : s[i] \in DigitSet \cup {"_"}
  /\ \A i \in 1..(Len(s) - 1) : ~(s[i] = "_" /\ s[i + 1] = "_")

int(s) ==
  LET t == str_strip(s)
      signed == Len(t) > 0 /\ t[1] \in {"+", "-"}
      body == IF signed THEN Tail(t) ELSE t
  IN IF ~IsDigitString(body) THEN PyNone
     ELSE IF signed /\ t[1] = "-" THEN Some(0 - DigitsValue(body, 0))
          ELSE Some(DigitsValue(body, 0))

\* re.sub(open [^close]+ close, '', s): every leftmost span from an opening
\* character to the next closing character, with at least one character in
\* between, is removed.
RECURSIVE FirstIndex(_, _, _)
FirstIndex(s, c, from) ==
  IF from > Len(s) THEN 0
  ELSE IF s[from] = c THEN from ELSE FirstIndex(s, c, from + 1)

RECURSIVE RemoveSpans(_, _, _)
RemoveSpans(s, open, close) ==
  IF Len(s) = 0 THEN s
  ELSE LET j == FirstIndex(s, close, 2)
       IN IF s[1] = open /\ j > 2
          THEN RemoveSpans(SubSeq(s, j + 1, Len(s)), open, close)
          ELSE <<s[1]>> \o RemoveSpans(Tail(s), open, close)

\* re.sub(r'\s+\d+$', '', s)
RECURSIVE TrailingRun(_, _)
TrailingRun(s, set) ==
  IF Len(s) > 0 /\ s[Len(s)] \in set
  THEN 1 + TrailingRun(SubSeq(s, 1, Len(s) - 1), set) ELSE 0

StripUpgradeNumber(s) ==
  LET d == TrailingRun(s, DigitSet)
      rest == SubSeq(s, 1, Len(s) - d)
      w == TrailingRun(rest, {" "})
  IN IF d > 0 /\ w > 0 THEN SubSeq(rest, 1, Len(rest) - w) ELSE s

\* ------------------------------------------------------------------------
\* dict: a Python dict is a function from its keys

EmptyDict == [k \in {} |-> k]
DictSet(d, k, v) == [j \in (DOMAIN d) \cup {k} |-> IF j = k THEN v ELSE d[j]]
\* d.get(k, default)
DictGet(d, k, default) == IF k \in DOMAIN d THEN d[k] ELSE default

\* ------------------------------------------------------------------------
\* ElementTree: what node.find(tag) returns and the .text of the element.
\* An element without content has the text None, which `text` holds as the
\* empty sequence: ElementTree never returns an empty string as a text.

NoElem == [present |-> FALSE, text |-> <<>>]
EmptyElem == [present |-> TRUE, text |-> <<>>]
Elem(t) == [present |-> TRUE, text |-> t]

\* `e is not None and e.text`
HasText(e) == e.present /\ Len(e.text) > 0

\* A flag element also carries its "value" attribute; absent and empty are
\* both falsy.
NoFlag == [present |-> FALSE, text |-> <<>>, value |-> <<>>]
Flag(t) == [present |-> TRUE, text |-> t, value |-> <<>>]
FlagAttr(v, t) == [present |-> TRUE, text |-> t, value |-> v]

\* A list element (abTechPrereq, aeNationValid, ...): present or not, with
\* its children in document order.
NoList == [present |-> FALSE, items |-> <<>>]
List(items) == [present |-> TRUE, items |-> items]

\* ------------------------------------------------------------------------
\* Sequence helpers

\* the texts of the elements of s that have one, in order
Texts(s) ==
  LET kept == SelectSeq(s, HasText)
  IN [i \in 1..Len(kept) |-> kept[i].text]

\* ------------------------------------------------------------------------
\* OldWorldParser helpers

\* format_name
format_name(text, prefix) ==
  LET stripped == IF str_startswith(text, prefix)
                  THEN SubSeq(text, Len(prefix) + 1, Len(text)) ELSE text
      result == str_title(str_replace(stripped, <<"_">>, <<" ">>))
  IN IF prefix = <<"P","R","O","J","E","C","T","_">> THEN StripUpgradeNumber(result) ELSE result

\* clean_text
clean_text(text) ==
  IF Len(text) = 0 THEN <<>>
  ELSE str_strip(str_replace(
         RemoveSpans(RemoveSpans(text, "<", ">"), "{", "}"), <<"~">>, <<>>))

\* a get_int_value without the try: a text that is no integer reads as 1
get_int_value_unguarded(node, tag, default) ==
  LET elem == node[tag]
  IN IF ~HasText(elem) THEN default
     ELSE IF IsNone(int(elem.text)) THEN 1 ELSE Val(int(elem.text))

\* get_int_value
get_int_value(node, tag, default) ==
  LET elem == node[tag]
  IN IF HasText(elem) /\ ~IsNone(int(elem.text)) THEN Val(int(elem.text))
     ELSE default

\* a get_bool_value that takes every non-empty value for true
get_bool_value_truthy(node, tag) ==
  node[tag].present /\ (Len(node[tag].value) > 0 \/ Len(node[tag].text) > 0)

\* get_bool_value
get_bool_value(node, tag) ==
  LET elem == node[tag]
      value == IF Len(elem.value) > 0 THEN elem.value ELSE elem.text
  IN elem.present /\ value = <<"1">>

\* The loop of parse_text_infos, parse_text_nation and parse_text_bonus over
\* the entries of one text table.
RECURSIVE load_text(_, _)
load_text(entries, td) ==
  IF Len(entries) = 0 THEN td
  ELSE LET e == entries[1]
       IN load_text(Tail(entries),
            IF HasText(e.zTag) /\ HasText(e.zText)
            THEN DictSet(td, e.zTag.text, clean_text(e.zText.text))
            ELSE td)

\* ------------------------------------------------------------------------
\* The unlock dicts are objects: a tech holds a reference to one, and the
\* heap maps each reference to the dict's current fields.  The dict built
\* for the i-th effectPlayer entry is EpRef(i); the dict literal built by
\* parse_tech_node for the j-th tech entry is TechRef(j).

EpRef(i) == <<"ep", i>>
TechRef(j) == <<"tech", j>>

NoUnlocks ==
  [units |-> <<>>, improvements |-> <<>>, laws |-> <<>>, projects |-> <<>>,
   specialists |-> <<>>, other |-> <<>>]

\* the display names of a list of ids
format_names(texts, prefix) ==
  [i \in 1..Len(texts) |-> format_name(texts[i], prefix)]

\* the unlocks dict parse_effect_player builds for one entry
effect_unlocks(entry) ==
  [units |-> format_names(Texts(entry.aeUnitUnlock), <<"U","N","I","T","_">>),
   improvements |-> format_names(Texts(entry.aeImprovementUnlock), <<"I","M","P","R","O","V","E","M","E","N","T","_">>),
   laws |-> format_names(Texts(entry.aeLawUnlock), <<"L","A","W","_">>),
   projects |-> format_names(Texts(entry.aeProjectUnlock), <<"P","R","O","J","E","C","T","_">>),
   specialists |-> format_names(Texts(entry.aeSpecialistUnlock), <<"S","P","E","C","I","A","L","I","S","T","_">>),
   other |-> <<>>]

\* The loop of parse_effect_player from entry i on: st holds
\* effect_player_data (effect id -> reference) and the heap.
RECURSIVE load_effects(_, _, _)
load_effects(entries, i, st) ==
  IF i > Len(entries) THEN st
  ELSE LET e == entries[i]
       IN load_effects(entries, i + 1,
            IF ~HasText(e.zType) THEN st
            ELSE [epd |-> DictSet(st.epd, e.zType.text, EpRef(i)),
                  heap |-> DictSet(st.heap, EpRef(i), effect_unlocks(e))])

\* ------------------------------------------------------------------------
\* parse_tech_node

\* the fallback name: tech_id.replace("TECH_", "").replace("_", " ").title()
tech_fallback_name(tech_id) ==
  str_title(str_replace(str_replace(tech_id, <<"T","E","C","H","_">>, <<>>), <<"_">>, <<" ">>))

\* prereqs under a test of bValue for any text
tech_prereqs_truthy(tech_node) ==
  LET IsPrereq(pair) == HasText(pair.zIndex) /\ HasText(pair.bValue)
      kept == SelectSeq(tech_node.abTechPrereq.items, IsPrereq)
  IN IF tech_node.abTechPrereq.present
     THEN [i \in 1..Len(kept) |-> kept[i].zIndex.text]
     ELSE <<>>

\* prereqs: the zIndex of every Pair whose bValue is "1"
tech_prereqs(tech_node) ==
  LET IsPrereq(pair) == HasText(pair.zIndex) /\ pair.bValue.present
                        /\ pair.bValue.text = <<"1">>
      kept == SelectSeq(tech_node.abTechPrereq.items, IsPrereq)
  IN IF tech_node.abTechPrereq.present
     THEN [i \in 1..Len(kept) |-> kept[i].zIndex.text]
     ELSE <<>>

\* nation_valid: the non-empty zValue texts of aeNationValid
tech_nation_valid(tech_node) ==
  IF tech_node.aeNationValid.present
  THEN Texts(tech_node.aeNationValid.items) ELSE <<>>

\* is_bonus
tech_is_bonus(tech_node) ==
  \/ get_bool_value(tech_node, "bHide")
  \/ get_bool_value(tech_node, "bTrash")
  \/ get_bool_value(tech_node, "bNoFree")

\* the reference parse_tech_node stores under "unlocks" for the j-th entry:
\* the dict of effect_player_data when EffectPlayer names one (the same
\* object for every tech that names it), else the node's own dict literal
tech_unlocks_ref(tech_node, j, epd) ==
  IF HasText(tech_node.EffectPlayer) /\ tech_node.EffectPlayer.text \in DOMAIN epd
  THEN epd[tech_node.EffectPlayer.text]
  ELSE TechRef(j)

\* parse_tech_node on the j-th entry: PyNone for an entry without a zType
parse_tech_node(tech_node, j, td, epd) ==
  IF ~HasText(tech_node.zType) THEN PyNone
  ELSE LET tech_id == tech_node.zType.text
       IN Some([id |-> tech_id,
                name |-> IF HasText(tech_node.Name)
                         THEN DictGet(td, tech_node.Name.text, tech_fallback_name(tech_id))
                         ELSE tech_fallback_name(tech_id),
                description |-> IF HasText(tech_node.Advice)
                                THEN DictGet(td, tech_node.Advice.text, <<>>)
                                ELSE <<>>,
                cost |-> get_int_value(tech_node, "iCost", 0),
                row |-> get_int_value(tech_node, "iRow", 0),
                column |-> get_int_value(tech_node, "iColumn", 0),
                prereqs |-> tech_prereqs(tech_node),
                unlocks |-> tech_unlocks_ref(tech_node, j, epd),
                isBonus |-> tech_is_bonus(tech_node),
                bonusDiscover |-> IF HasText(tech_node.BonusDiscover)
                                  THEN Some(tech_node.BonusDiscover.text) ELSE PyNone,
                nationValid |-> tech_nation_valid(tech_node)])

\* The loop of parse_techs from entry j on: st holds self.techs and the heap.
RECURSIVE load_techs(_, _, _, _, _)
load_techs(entries, j, td, epd, st) ==
  IF j > Len(entries) THEN st
  ELSE LET t == parse_tech_node(entries[j], j, td, epd)
       IN load_techs(entries, j + 1, td, epd,
            IF IsNone(t) THEN st
            ELSE [techs |-> Append(st.techs, Val(t)),
                  heap |-> IF Val(t).unlocks = TechRef(j)
                           THEN DictSet(st.heap, TechRef(j), NoUnlocks)
                           ELSE st.heap])

\* ------------------------------------------------------------------------
\* parse_nations: the loop over the entries; a nation without a starting
\* tech is not stored.
RECURSIVE load_nations(_, _, _)
load_nations(entries, td, nations) ==
  IF Len(entries) = 0 THEN nations
  ELSE LET n == entries[1]
           nation_id == n.zType.text
           fallback == str_title(str_replace(nation_id, <<"N","A","T","I","O","N","_">>, <<>>))
           starting == IF n.aeStartingTech.present
                       THEN Texts(n.aeStartingTech.items) ELSE <<>>
           rec == [id |-> nation_id,
                   name |-> IF HasText(n.Name)
                            THEN DictGet(td, n.Name.text, fallback) ELSE fallback,
                   startingTechs |-> starting]
       IN load_nations(Tail(entries), td,
            IF HasText(n.zType) /\ Len(starting) > 0
            THEN DictSet(nations, nation_id, rec) ELSE nations)

\* ------------------------------------------------------------------------
\* parse_bonuses

\* The yields of one bonus entry, Pair by Pair: Some(dict), or PyNone where
\* the source raises: zIndex without text (None has no replace), iValue
\* without text (int(None)) or with a text int() rejects.
RECURSIVE bonus_yields(_, _)
bonus_yields(pairs, yields) ==
  IF Len(pairs) = 0 THEN Some(yields)
  ELSE LET p == pairs[1]
       IN IF ~(p.zIndex.present /\ p.iValue.present)
          THEN bonus_yields(Tail(pairs), yields)
          ELSE IF ~HasText(p.zIndex) \/ ~HasText(p.iValue) \/ IsNone(int(p.iValue.text))
               THEN PyNone
               ELSE bonus_yields(Tail(pairs),
                      DictSet(yields,
                              str_lower(str_replace(p.zIndex.text, <<"Y","I","E","L","D","_">>, <<>>)),
                              Val(int(p.iValue.text))))

\* The loop of parse_bonuses: st.values is self.bonus_values so far and
\* st.raised says whether an entry raised (the loop stops there).
RECURSIVE load_bonuses(_, _)
load_bonuses(entries, st) ==
  IF Len(entries) = 0 \/ st.raised THEN st
  ELSE LET b == entries[1]
           ys == IF b.aiGlobalYields.present
                 THEN bonus_yields(b.aiGlobalYields.items, EmptyDict)
                 ELSE Some(EmptyDict)
       IN load_bonuses(Tail(entries),
            IF ~HasText(b.zType) THEN st
            ELSE IF IsNone(ys) THEN [st EXCEPT !.raised = TRUE]
                 ELSE [st EXCEPT !.values =
                         DictSet(st.values, b.zType.text,
                                 [yields |-> Val(ys), other |-> EmptyDict])])

\* a get_bonus_value that returns the magnitude of the value
get_bonus_value_magnitude(bonus_values, tech_id, yield_type) ==
  LET bonus_key == <<"B","O","N","U","S","_">> \o tech_id
      value == IF bonus_key \in DOMAIN bonus_values
               THEN DictGet(bonus_values[bonus_key].yields, str_lower(yield_type), 0)
               ELSE 0
  IN IF value < 0 THEN 0 - value ELSE value

\* get_bonus_value, for a bonus_values that is set
get_bonus_value(bonus_values, tech_id, yield_type) ==
  LET bonus_key == <<"B","O","N","U","S","_">> \o tech_id
  IN IF bonus_key \in DOMAIN bonus_values
     THEN DictGet(bonus_values[bonus_key].yields, str_lower(yield_type), 0)
     ELSE 0

\* ------------------------------------------------------------------------
\* parse_unit_unlocks and parse_project_unlocks

\* tech_units / tech_projects: tech id -> display names, in record order
RECURSIVE reverse_index(_, _, _)
reverse_index(entries, prefix, idx) ==
  IF Len(entries) = 0 THEN idx
  ELSE LET e == entries[1]
       IN reverse_index(Tail(entries), prefix,
            IF HasText(e.zType) /\ HasText(e.TechPrereq)
            THEN DictSet(idx, e.TechPrereq.text,
                         Append(DictGet(idx, e.TechPrereq.text, <<>>),
                                format_name(e.zType.text, prefix)))
            ELSE idx)

\* `for tech in self.techs: if tech["id"] in mapping:
\*      tech["unlocks"][category] = mapping[tech["id"]]`
\* from tech k on: the assignment goes through the tech's reference.
RECURSIVE assign_unlocks(_, _, _, _, _)
assign_unlocks(techs, k, category, mapping, heap) ==
  IF k > Len(techs) THEN heap
  ELSE assign_unlocks(techs, k + 1, category, mapping,
         IF techs[k].id \in DOMAIN mapping
         THEN [heap EXCEPT ![techs[k].unlocks][category] = mapping[techs[k].id]]
         ELSE heap)
\* parse_improvement_unlocks: the curated improvements of each tech
manual_improvement_mapping ==
     (<<"T","E","C","H","_","S","T","O","N","E","C","U","T","T","I","N","G">> :> <<<<"F","o","r","t">>, <<"Q","u","a","r","r","y">>>>)
  @@ (<<"T","E","C","H","_","T","R","A","P","P","I","N","G">> :> <<<<"C","a","m","p">>>>)
  @@ (<<"T","E","C","H","_","D","I","V","I","N","A","T","I","O","N">> :> <<<<"S","h","r","i","n","e">>>>)
  @@ (<<"T","E","C","H","_","A","D","M","I","N","I","S","T","R","A","T","I","O","N">> :> <<<<"G","r","a","n","a","r","y">>>>)
  @@ (<<"T","E","C","H","_","H","U","S","B","A","N","D","R","Y">> :> <<<<"P","a","s","t","u","r","e">>>>)
  @@ (<<"T","E","C","H","_","D","R","A","M","A">> :> <<<<"O","d","e","o","n">>>>)
  @@ (<<"T","E","C","H","_","P","O","L","I","S">> :> <<<<"H","a","m","l","e","t">>>>)
  @@ (<<"T","E","C","H","_","M","I","L","I","T","A","R","Y","_","D","R","I","L","L">> :> <<<<"B","a","r","r","a","c","k","s">>>>)
  @@ (<<"T","E","C","H","_","A","R","I","S","T","O","C","R","A","C","Y">> :> <<<<"K","u","s","h","i","t","e"," ","P","y","r","a","m","i","d","s">>>>)
  @@ (<<"T","E","C","H","_","F","O","R","E","S","T","R","Y">> :> <<<<"L","u","m","b","e","r","m","i","l","l">>>>)
  @@ (<<"T","E","C","H","_","C","O","I","N","A","G","E">> :> <<<<"M","a","r","k","e","t">>>>)
  @@ (<<"T","E","C","H","_","C","I","T","I","Z","E","N","S","H","I","P">> :> <<<<"C","o","u","r","t","h","o","u","s","e">>>>)
  @@ (<<"T","E","C","H","_","A","R","C","H","I","T","E","C","T","U","R","E">> :> <<<<"B","a","t","h","s">>>>)
  @@ (<<"T","E","C","H","_","L","A","N","D","_","C","O","N","S","O","L","I","D","A","T","I","O","N">> :> <<<<"G","r","o","v","e">>>>)
  @@ (<<"T","E","C","H","_","C","O","M","P","O","S","I","T","E","_","B","O","W">> :> <<<<"R","a","n","g","e">>>>)
  @@ (<<"T","E","C","H","_","M","O","N","A","S","T","I","C","I","S","M">> :> <<<<"M","o","n","a","s","t","e","r","y">>>>)
  @@ (<<"T","E","C","H","_","S","C","H","O","L","A","R","S","H","I","P">> :> <<<<"L","i","b","r","a","r","y">>>>)
  @@ (<<"T","E","C","H","_","V","A","U","L","T","I","N","G">> :> <<<<"C","a","t","h","e","d","r","a","l">>>>)
  @@ (<<"T","E","C","H","_","D","O","C","T","R","I","N","E">> :> <<<<"T","e","m","p","l","e">>>>)
  @@ (<<"T","E","C","H","_","H","Y","D","R","A","U","L","I","C","S">> :> <<<<"M","i","l","l">>>>)
  @@ (<<"T","E","C","H","_","C","A","R","T","O","G","R","A","P","H","Y">> :> <<<<"H","a","r","b","o","r">>>>)

\* parse_law_unlocks: the curated laws of each tech
manual_law_mapping ==
     (<<"T","E","C","H","_","L","A","B","O","R","_","F","O","R","C","E">> :> <<<<"S","l","a","v","e","r","y","/","F","r","e","e","d","o","m">>>>)
  @@ (<<"T","E","C","H","_","A","R","I","S","T","O","C","R","A","C","Y">> :> <<<<"C","e","n","t","r","a","l","i","z","a","t","i","o","n","/","V","a","s","s","a","l","a","g","e">>>>)
  @@ (<<"T","E","C","H","_","R","H","E","T","O","R","I","C">> :> <<<<"E","p","i","c","s","/","E","x","p","l","o","r","a","t","i","o","n">>>>)
  @@ (<<"T","E","C","H","_","N","A","V","I","G","A","T","I","O","N">> :> <<<<"C","o","l","o","n","i","e","s","/","S","e","r","f","d","o","m">>>>)
  @@ (<<"T","E","C","H","_","S","O","V","E","R","E","I","G","N","T","Y">> :> <<<<"T","y","r","a","n","n","y","/","C","o","n","s","t","i","t","u","t","i","o","n">>>>)
  @@ (<<"T","E","C","H","_","C","I","T","I","Z","E","N","S","H","I","P">> :> <<<<"D","i","v","i","n","e"," ","R","u","l","e","/","L","e","g","a","l"," ","C","o","d","e">>>>)
  @@ (<<"T","E","C","H","_","A","R","C","H","I","T","E","C","T","U","R","E">> :> <<<<"P","h","i","l","o","s","o","p","h","y","/","E","n","g","i","n","e","e","r","i","n","g">>>>)
  @@ (<<"T","E","C","H","_","M","O","N","A","S","T","I","C","I","S","M">> :> <<<<"M","o","n","o","t","h","e","i","s","m","/","P","o","l","y","t","h","e","i","s","m">>>>)
  @@ (<<"T","E","C","H","_","V","A","U","L","T","I","N","G">> :> <<<<"I","c","o","n","o","g","r","a","p","h","y","/","C","a","l","l","i","g","r","a","p","h","y">>>>)
  @@ (<<"T","E","C","H","_","M","A","N","O","R">> :> <<<<"P","r","o","f","e","s","s","i","o","n","a","l"," ","A","r","m","y","/","V","o","l","u","n","t","e","e","r","s">>>>)
  @@ (<<"T","E","C","H","_","D","O","C","T","R","I","N","E">> :> <<<<"T","o","l","e","r","a","n","c","e","/","O","r","t","h","o","d","o","x","y">>>>)
  @@ (<<"T","E","C","H","_","L","A","T","E","E","N","_","S","A","I","L">> :> <<<<"A","u","t","a","r","k","y","/","T","r","a","d","e"," ","L","e","a","g","u","e">>>>)
  @@ (<<"T","E","C","H","_","J","U","R","I","S","P","R","U","D","E","N","C","E">> :> <<<<"G","u","i","l","d","s","/","E","l","i","t","e","s">>>>)
  @@ (<<"T","E","C","H","_","M","A","R","T","I","A","L","_","C","O","D","E">> :> <<<<"P","i","l","g","r","i","m","a","g","e","/","H","o","l","y"," ","W","a","r">>>>)
  @@ (<<"T","E","C","H","_","F","I","S","C","A","L","_","P","O","L","I","C","Y">> :> <<<<"C","o","i","n"," ","D","e","b","a","s","e","m","e","n","t","/","M","o","n","e","t","a","r","y"," ","R","e","f","o","r","m">>>>)

\* identify_bonus_techs: the curated names of the luxury resources
resource_map ==
     (<<"S","i","l","k">> :> <<"S","i","l","k">>)
  @@ (<<"P","o","r","c","e","l","a","i","n">> :> <<"P","o","r","c","e","l","a","i","n">>)
  @@ (<<"E","x","o","t","i","c"," ","F","u","r">> :> <<"E","x","o","t","i","c"," ","F","u","r","s">>)
  @@ (<<"P","e","r","f","u","m","e">> :> <<"P","e","r","f","u","m","e">>)
  @@ (<<"E","x","o","t","i","c"," ","L","e","a","t","h","e","r">> :> <<"E","x","o","t","i","c"," ","L","e","a","t","h","e","r">>)
  @@ (<<"E","b","o","n","y">> :> <<"E","b","o","n","y">>)
  @@ (<<"I","v","o","r","y">> :> <<"I","v","o","r","y">>)
  @@ (<<"L","a","v","e","n","d","e","r">> :> <<"L","a","v","e","n","d","e","r">>)
  @@ (<<"S","p","i","c","e","s">> :> <<"S","p","i","c","e","s">>)
  @@ (<<"W","i","n","e">> :> <<"W","i","n","e">>)
  @@ (<<"I","n","c","e","n","s","e">> :> <<"I","n","c","e","n","s","e">>)
  @@ (<<"G","e","m","s">> :> <<"G","e","m","s">>)
  @@ (<<"P","e","a","r","l">> :> <<"P","e","a","r","l","s">>)
  @@ (<<"O","l","i","v","e">> :> <<"O","l","i","v","e","s">>)
  @@ (<<"D","y","e">> :> <<"D","y","e">>)
  @@ (<<"F","u","r">> :> <<"F","u","r","s">>)
  @@ (<<"H","o","n","e","y">> :> <<"H","o","n","e","y">>)
  @@ (<<"S","a","l","t">> :> <<"S","a","l","t">>)

\* ------------------------------------------------------------------------
\* identify_bonus_techs: the two elif chains as ordered rule lists.  A rule
\* matches an id when every pattern of `all` and no pattern of `none` occurs
\* in the uppercased id; the RESOURCE_ rule tests the id as written.

Fixed(all, none, text) ==
  [all |-> all, none |-> none, raw |-> FALSE, kind |-> "fixed",
   text |-> text, yield |-> <<>>, label |-> <<>>]
\* "+N <label>" with N from the bonus values when N > 0, else the default
Yield(all, yield, label, default) ==
  [all |-> all, none |-> {}, raw |-> FALSE, kind |-> "yield",
   text |-> default, yield |-> yield, label |-> label]
Resource ==
  [all |-> {}, none |-> {}, raw |-> TRUE, kind |-> "resource",
   text |-> <<>>, yield |-> <<>>, label |-> <<>>]
\* "+1 ..." when the id holds a "1", else "+2 ..."
Hittite(all) ==
  [all |-> all, none |-> {}, raw |-> FALSE, kind |-> "hittite",
   text |-> <<>>, yield |-> <<>>, label |-> <<>>]

\* the bonus_text chain
bonus_text_rules ==
  << Yield({<<"S","T","O","N","E">>, <<"S","T","O","N","E","C","U","T","T","I","N","G">>}, <<"s","t","o","n","e">>, <<" ","S","t","o","n","e">>, <<"+","2","0","0"," ","S","t","o","n","e">>),
     Fixed({<<"W","O","R","K","E","R">>}, {}, <<"+","1"," ","W","o","r","k","e","r">>),
     Yield({<<"F","O","O","D">>}, <<"f","o","o","d">>, <<" ","F","o","o","d">>, <<"+","2","0","0"," ","F","o","o","d">>),
     Fixed({<<"S","E","T","T","L","E","R">>}, {}, <<"+","1"," ","S","e","t","t","l","e","r">>),
     Fixed({<<"B","O","R","D","E","R","S">>}, {}, <<"B","o","r","d","e","r"," ","G","r","o","w","t","h">>),
     Yield({<<"O","R","D","E","R","S">>}, <<"o","r","d","e","r","s">>, <<" ","O","r","d","e","r","s">>, <<"+","2","0"," ","O","r","d","e","r","s">>),
     Yield({<<"M","O","N","E","Y">>}, <<"m","o","n","e","y">>, <<" ","M","o","n","e","y">>, <<"+","2","0","0"," ","M","o","n","e","y">>),
     Fixed({<<"M","I","N","I","S","T","E","R">>}, {}, <<"+","1"," ","M","i","n","i","s","t","e","r">>),
     Fixed({<<"S","C","I","E","N","T","I","S","T">>}, {}, <<"F","r","e","e"," ","S","c","i","e","n","t","i","s","t">>),
     Yield({<<"C","I","V","I","C","S">>}, <<"c","i","v","i","c","s">>, <<" ","C","i","v","i","c","s">>, <<"C","i","v","i","c"," ","P","o","i","n","t","s">>),
     Yield({<<"T","R","A","I","N","I","N","G">>}, <<"t","r","a","i","n","i","n","g">>, <<" ","T","r","a","i","n","i","n","g">>, <<"U","n","i","t"," ","T","r","a","i","n","i","n","g">>),
     Fixed({<<"H","A","P","P","I","N","E","S","S">>}, {}, <<"H","a","p","p","i","n","e","s","s"," ","B","o","o","s","t">>),
     Fixed({<<"G","O","O","D","S">>}, {}, <<"L","u","x","u","r","y"," ","G","o","o","d","s">>),
     Fixed({<<"M","E","R","C","H","A","N","T">>}, {}, <<"F","r","e","e"," ","M","e","r","c","h","a","n","t">>),
     Fixed({<<"S","O","L","D","I","E","R">>}, {}, <<"F","r","e","e"," ","C","o","u","r","t"," ","S","o","l","d","i","e","r">>),
     Resource,
     Fixed({<<"B","I","R","E","M","E">>}, {}, <<"+","1"," ","B","i","r","e","m","e">>),
     Fixed({<<"C","H","A","R","I","O","T">>}, {<<"L","I","G","H","T">>, <<"H","I","T","T","I","T","E">>}, <<"+","1"," ","C","h","a","r","i","o","t">>),
     Fixed({<<"M","A","C","E","M","A","N">>}, {}, <<"+","1"," ","M","a","c","e","m","a","n">>),
     Fixed({<<"O","N","A","G","E","R">>}, {}, <<"+","1"," ","O","n","a","g","e","r">>),
     Fixed({<<"A","R","C","H","E","R">>}, {<<"C","A","M","E","L">>, <<"H","O","R","S","E">>, <<"A","K","K","A","D","I","A","N">>, <<"C","I","M","M","E","R","I","A","N">>, <<"M","E","D","J","A","Y">>, <<"B","E","J","A">>, <<"C","A","T","A","P","H","R","A","C","T">>}, <<"+","1"," ","A","r","c","h","e","r">>),
     Fixed({<<"H","O","R","S","E","M","A","N">>}, {<<"H","O","R","S","E","_","A","R","C","H","E","R">>}, <<"+","1"," ","H","o","r","s","e","m","a","n">>),
     Fixed({<<"H","O","R","S","E","_","A","R","C","H","E","R">>}, {}, <<"+","1"," ","H","o","r","s","e"," ","A","r","c","h","e","r">>),
     Fixed({<<"C","A","M","E","L","_","A","R","C","H","E","R">>}, {}, <<"+","1"," ","C","a","m","e","l"," ","A","r","c","h","e","r">>),
     Fixed({<<"W","A","R","_","E","L","E","P","H","A","N","T">>}, {}, <<"+","1"," ","W","a","r"," ","E","l","e","p","h","a","n","t">>),
     Fixed({<<"B","A","L","L","I","S","T","A">>}, {}, <<"+","1"," ","B","a","l","l","i","s","t","a">>),
     Fixed({<<"L","O","N","G","B","O","W","M","A","N">>}, {}, <<"+","2"," ","L","o","n","g","b","o","w","m","a","n">>),
     Fixed({<<"C","R","O","S","S","B","O","W","M","A","N">>}, {}, <<"+","2"," ","C","r","o","s","s","b","o","w","m","a","n">>),
     Fixed({<<"B","A","T","T","E","R","I","N","G","_","R","A","M">>}, {}, <<"+","1"," ","B","a","t","t","e","r","i","n","g"," ","R","a","m">>),
     Fixed({<<"S","I","E","G","E","_","T","O","W","E","R">>}, {}, <<"+","2"," ","S","i","e","g","e"," ","T","o","w","e","r">>),
     Fixed({<<"A","K","K","A","D","I","A","N">>}, {}, <<"+","1"," ","A","k","k","a","d","i","a","n"," ","A","r","c","h","e","r">>),
     Fixed({<<"C","I","M","M","E","R","I","A","N">>}, {}, <<"+","2"," ","C","i","m","m","e","r","i","a","n"," ","A","r","c","h","e","r">>),
     Fixed({<<"A","F","R","I","C","A","N","_","E","L","E","P","H","A","N","T">>}, {}, <<"+","1"," ","A","f","r","i","c","a","n"," ","E","l","e","p","h","a","n","t">>),
     Fixed({<<"T","U","R","R","E","T","E","D","_","E","L","E","P","H","A","N","T">>}, {}, <<"+","2"," ","T","u","r","r","e","t","e","d"," ","E","l","e","p","h","a","n","t">>),
     Fixed({<<"L","I","G","H","T","_","C","H","A","R","I","O","T">>}, {}, <<"+","1"," ","L","i","g","h","t"," ","C","h","a","r","i","o","t">>),
     Fixed({<<"M","O","U","N","T","E","D","_","L","A","N","C","E","R">>}, {}, <<"+","2"," ","M","o","u","n","t","e","d"," ","L","a","n","c","e","r">>),
     Fixed({<<"H","O","P","L","I","T","E">>}, {}, <<"+","1"," ","H","o","p","l","i","t","e">>),
     Fixed({<<"P","H","A","L","A","N","G","I","T","E">>}, {}, <<"+","2"," ","P","h","a","l","a","n","g","i","t","e">>),
     Hittite({<<"H","I","T","T","I","T","E","_","C","H","A","R","I","O","T">>}),
     Fixed({<<"M","E","D","J","A","Y">>}, {}, <<"+","1"," ","M","e","d","j","a","y">>),
     Fixed({<<"B","E","J","A">>}, {}, <<"+","2"," ","B","e","j","a"," ","A","r","c","h","e","r">>),
     Fixed({<<"P","A","L","T","O","N">>}, {}, <<"+","1"," ","P","a","l","t","o","n"," ","C","a","v","a","l","r","y">>),
     Fixed({<<"C","A","T","A","P","H","R","A","C","T">>}, {}, <<"+","2"," ","C","a","t","a","p","h","r","a","c","t"," ","A","r","c","h","e","r">>),
     Fixed({<<"H","A","S","T","A","T","U","S">>}, {}, <<"+","1"," ","H","a","s","t","a","t","u","s">>),
     Fixed({<<"L","E","G","I","O","N","A","R","Y">>}, {}, <<"+","2"," ","L","e","g","i","o","n","a","r","y">>),
     Fixed({<<"D","M","T">>}, {}, <<"+","1"," ","D","m","t"," ","W","a","r","r","i","o","r">>),
     Fixed({<<"S","H","O","T","E","L","A","I">>}, {}, <<"+","2"," ","S","h","o","t","e","l","a","i">>) >>

\* the bonus_name chain
bonus_name_rules ==
  << Fixed({<<"S","T","O","N","E">>, <<"S","T","O","N","E","C","U","T","T","I","N","G">>}, {}, <<"S","t","o","n","e"," ","B","o","o","s","t">>),
     Fixed({<<"W","O","R","K","E","R">>}, {}, <<"F","r","e","e"," ","W","o","r","k","e","r">>),
     Fixed({<<"F","O","O","D">>}, {}, <<"F","o","o","d"," ","B","o","o","s","t">>),
     Fixed({<<"S","E","T","T","L","E","R">>}, {}, <<"F","r","e","e"," ","S","e","t","t","l","e","r">>),
     Fixed({<<"B","O","R","D","E","R","S">>}, {}, <<"B","o","r","d","e","r"," ","B","o","o","s","t">>),
     Fixed({<<"O","R","D","E","R","S">>}, {}, <<"O","r","d","e","r","s"," ","B","o","o","s","t">>),
     Fixed({<<"M","O","N","E","Y">>}, {}, <<"M","o","n","e","y"," ","B","o","o","s","t">>),
     Fixed({<<"M","I","N","I","S","T","E","R">>}, {}, <<"F","r","e","e"," ","M","i","n","i","s","t","e","r">>),
     Fixed({<<"S","C","I","E","N","T","I","S","T">>}, {}, <<"F","r","e","e"," ","S","c","i","e","n","t","i","s","t">>),
     Fixed({<<"C","I","V","I","C","S">>}, {}, <<"C","i","v","i","c","s"," ","B","o","o","s","t">>),
     Fixed({<<"T","R","A","I","N","I","N","G">>}, {}, <<"T","r","a","i","n","i","n","g"," ","B","o","o","s","t">>),
     Fixed({<<"H","A","P","P","I","N","E","S","S">>}, {}, <<"H","a","p","p","i","n","e","s","s"," ","B","o","o","s","t">>),
     Fixed({<<"G","O","O","D","S">>}, {}, <<"G","o","o","d","s"," ","B","o","n","u","s">>),
     Fixed({<<"M","E","R","C","H","A","N","T">>}, {}, <<"F","r","e","e"," ","M","e","r","c","h","a","n","t">>),
     Fixed({<<"S","O","L","D","I","E","R">>}, {}, <<"F","r","e","e"," ","C","o","u","r","t"," ","S","o","l","d","i","e","r">>),
     Fixed({<<"B","I","R","E","M","E">>}, {}, <<"F","r","e","e"," ","B","i","r","e","m","e">>),
     Fixed({<<"C","H","A","R","I","O","T">>}, {<<"L","I","G","H","T">>, <<"H","I","T","T","I","T","E">>}, <<"F","r","e","e"," ","C","h","a","r","i","o","t">>),
     Fixed({<<"M","A","C","E","M","A","N">>}, {}, <<"F","r","e","e"," ","M","a","c","e","m","a","n">>),
     Fixed({<<"O","N","A","G","E","R">>}, {}, <<"F","r","e","e"," ","O","n","a","g","e","r">>),
     Fixed({<<"A","R","C","H","E","R">>}, {<<"C","A","M","E","L">>, <<"H","O","R","S","E">>, <<"A","K","K","A","D","I","A","N">>, <<"C","I","M","M","E","R","I","A","N">>, <<"M","E","D","J","A","Y">>, <<"B","E","J","A">>, <<"C","A","T","A","P","H","R","A","C","T">>}, <<"F","r","e","e"," ","A","r","c","h","e","r">>),
     Fixed({<<"C","A","M","E","L","_","A","R","C","H","E","R">>}, {}, <<"F","r","e","e"," ","C","a","m","e","l"," ","A","r","c","h","e","r">>),
     Fixed({<<"W","A","R","_","E","L","E","P","H","A","N","T">>}, {}, <<"F","r","e","e"," ","W","a","r"," ","E","l","e","p","h","a","n","t">>),
     Fixed({<<"H","O","R","S","E","M","A","N">>}, {<<"H","O","R","S","E","_","A","R","C","H","E","R">>}, <<"F","r","e","e"," ","H","o","r","s","e","m","a","n">>),
     Fixed({<<"H","O","R","S","E","_","A","R","C","H","E","R">>}, {}, <<"F","r","e","e"," ","H","o","r","s","e"," ","A","r","c","h","e","r">>),
     Fixed({<<"B","A","L","L","I","S","T","A">>}, {}, <<"F","r","e","e"," ","B","a","l","l","i","s","t","a">>),
     Fixed({<<"L","O","N","G","B","O","W","M","A","N">>}, {}, <<"F","r","e","e"," ","L","o","n","g","b","o","w","m","a","n">>),
     Fixed({<<"C","R","O","S","S","B","O","W","M","A","N">>}, {}, <<"F","r","e","e"," ","C","r","o","s","s","b","o","w","m","a","n">>),
     Fixed({<<"B","A","T","T","E","R","I","N","G","_","R","A","M">>}, {}, <<"F","r","e","e"," ","B","a","t","t","e","r","i","n","g"," ","R","a","m">>),
     Fixed({<<"S","I","E","G","E","_","T","O","W","E","R">>}, {}, <<"F","r","e","e"," ","S","i","e","g","e"," ","T","o","w","e","r">>),
     Fixed({<<"A","K","K","A","D","I","A","N">>}, {}, <<"F","r","e","e"," ","A","k","k","a","d","i","a","n"," ","A","r","c","h","e","r">>),
     Fixed({<<"C","I","M","M","E","R","I","A","N">>}, {}, <<"F","r","e","e"," ","C","i","m","m","e","r","i","a","n"," ","A","r","c","h","e","r">>),
     Fixed({<<"A","F","R","I","C","A","N","_","E","L","E","P","H","A","N","T">>}, {}, <<"F","r","e","e"," ","A","f","r","i","c","a","n"," ","E","l","e","p","h","a","n","t">>),
     Fixed({<<"T","U","R","R","E","T","E","D","_","E","L","E","P","H","A","N","T">>}, {}, <<"F","r","e","e"," ","T","u","r","r","e","t","e","d"," ","E","l","e","p","h","a","n","t">>),
     Fixed({<<"L","I","G","H","T","_","C","H","A","R","I","O","T">>}, {}, <<"F","r","e","e"," ","L","i","g","h","t"," ","C","h","a","r","i","o","t">>),
     Fixed({<<"M","O","U","N","T","E","D","_","L","A","N","C","E","R">>}, {}, <<"F","r","e","e"," ","M","o","u","n","t","e","d"," ","L","a","n","c","e","r">>),
     Fixed({<<"H","O","P","L","I","T","E">>}, {}, <<"F","r","e","e"," ","H","o","p","l","i","t","e">>),
     Fixed({<<"P","H","A","L","A","N","G","I","T","E">>}, {}, <<"F","r","e","e"," ","P","h","a","l","a","n","g","i","t","e">>),
     Fixed({<<"H","I","T","T","I","T","E","_","C","H","A","R","I","O","T">>}, {}, <<"F","r","e","e"," ","H","i","t","t","i","t","e"," ","C","h","a","r","i","o","t">>),
     Fixed({<<"M","E","D","J","A","Y">>}, {}, <<"F","r","e","e"," ","M","e","d","j","a","y">>),
     Fixed({<<"B","E","J","A">>}, {}, <<"F","r","e","e"," ","B","e","j","a"," ","A","r","c","h","e","r">>),
     Fixed({<<"P","A","L","T","O","N">>}, {}, <<"F","r","e","e"," ","P","a","l","t","o","n"," ","C","a","v","a","l","r","y">>),
     Fixed({<<"C","A","T","A","P","H","R","A","C","T">>}, {}, <<"F","r","e","e"," ","C","a","t","a","p","h","r","a","c","t"," ","A","r","c","h","e","r">>),
     Fixed({<<"H","A","S","T","A","T","U","S">>}, {}, <<"F","r","e","e"," ","H","a","s","t","a","t","u","s">>),
     Fixed({<<"L","E","G","I","O","N","A","R","Y">>}, {}, <<"F","r","e","e"," ","L","e","g","i","o","n","a","r","y">>),
     Fixed({<<"D","M","T">>}, {}, <<"F","r","e","e"," ","D","m","t"," ","W","a","r","r","i","o","r">>),
     Fixed({<<"S","H","O","T","E","L","A","I">>}, {}, <<"F","r","e","e"," ","S","h","o","t","e","l","a","i">>),
     Resource >>

\* a match that leaves out the exclusions of a rule
rule_matches_unguarded(rule, tech_id) ==
  LET tech_id_upper == str_upper(tech_id)
  IN /\ \A p \in rule.all : Contains(p, tech_id_upper)
     /\ rule.raw => Contains(<<"R","E","S","O","U","R","C","E","_">>, tech_id)

rule_matches(rule, tech_id) ==
  LET tech_id_upper == str_upper(tech_id)
  IN /\ \A p \in rule.all : Contains(p, tech_id_upper)
     /\ \A p \in rule.none : ~Contains(p, tech_id_upper)
     /\ rule.raw => Contains(<<"R","E","S","O","U","R","C","E","_">>, tech_id)

\* the index of the last rule of the chain that matches
last_match(rules, k, tech_id) ==
  LET matching == {i \in k..Len(rules) : rule_matches(rules[i], tech_id)}
  IN IF matching = {} THEN 0
     ELSE CHOOSE i \in matching : \A j \in matching : j <= i

\* the index of the first rule of the chain that matches, 0 when none does
RECURSIVE first_match(_, _, _)
first_match(rules, k, tech_id) ==
  IF k > Len(rules) THEN 0
  ELSE IF rule_matches(rules[k], tech_id) THEN k
       ELSE first_match(rules, k + 1, tech_id)

\* the exclusion check: the markers are looked up in the id as written
victory_markers == {<<"E","C","O","N","O","M","I","C","_","R","E","F","O","R","M">>, <<"M","I","L","I","T","A","R","Y","_","P","R","E","S","T","I","G","E">>, <<"I","N","D","U","S","T","R","I","A","L","_","P","R","O","G","R","E","S","S">>}
exclude_from_bonus == victory_markers \cup {<<"E","V","E","N","T","_">>}

\* a reading of the markers under which an event is no exclusion
should_exclude_victory_only(tech_id) ==
  \E exc \in victory_markers : Contains(exc, tech_id)

should_exclude(tech_id) == \E exc \in exclude_from_bonus : Contains(exc, tech_id)
is_victory(tech_id) == \E vic \in victory_markers : Contains(vic, tech_id)

\* the text of the RESOURCE_ rule
resource_text(tech_id) ==
  LET resource_name ==
        str_title(str_replace(
          str_replace(str_replace(tech_id, <<"T","E","C","H","_","R","E","S","O","U","R","C","E","_">>, <<>>), <<"_","B","O","N","U","S">>, <<>>),
          <<"_">>, <<" ">>))
  IN DictGet(resource_map, resource_name, resource_name)

\* Whether computing bonus_text reads self.bonus_values: the first matching
\* rule is one that calls get_bonus_value.
reads_bonus_values(tech_id) ==
  LET k == first_match(bonus_text_rules, 1, tech_id)
  IN k > 0 /\ bonus_text_rules[k].kind = "yield"

\* bonus_text, including the fallback to the tech's name; bonus_values is the
\* dict (the caller has checked that the attribute exists where it is read)
bonus_text_of(tech, bonus_values) ==
  LET k == first_match(bonus_text_rules, 1, tech.id)
      r == bonus_text_rules[k]
      value == get_bonus_value(bonus_values, tech.id, r.yield)
      matched ==
        IF k = 0 THEN <<>>
        ELSE CASE r.kind = "fixed" -> r.text
               [] r.kind = "yield" ->
                    IF value > 0 THEN <<"+">> \o IntStr(value) \o r.label ELSE r.text
               [] r.kind = "resource" -> resource_text(tech.id)
               [] r.kind = "hittite" ->
                    IF Contains(<<"1">>, str_upper(tech.id))
                    THEN <<"+","1"," ","H","i","t","t","i","t","e"," ","C","h","a","r","i","o","t">> ELSE <<"+","2"," ","H","i","t","t","i","t","e"," ","C","h","a","r","i","o","t">>
  IN IF Len(matched) = 0 THEN tech.name ELSE matched

\* bonus_name
bonus_name_of(tech, bonus_text) ==
  LET k == first_match(bonus_name_rules, 1, tech.id)
      r == bonus_name_rules[k]
  IN IF k = 0 THEN tech.name
     ELSE IF r.kind = "resource" THEN bonus_text ELSE r.text

\* a parent taken from the last prerequisite
bonus_parent_last(tech) ==
  IF Len(tech.prereqs) > 0 THEN Some(tech.prereqs[Len(tech.prereqs)]) ELSE PyNone

\* parent: the first prerequisite, or None
bonus_parent(tech) == IF Len(tech.prereqs) > 0 THEN Some(tech.prereqs[1]) ELSE PyNone

\* a nation taken from the last value of the restriction
with_nation_last(tech, card) ==
  IF Len(tech.nationValid) > 0
  THEN [id |-> card.id, name |-> card.name, cost |-> card.cost,
        parent |-> card.parent, bonus |-> card.bonus,
        nation |-> tech.nationValid[Len(tech.nationValid)]]
  ELSE card

\* the bonus_tech dict of one tech; "nation" is a key only for a tech with
\* a nation restriction
with_nation(tech, card) ==
  IF Len(tech.nationValid) > 0
  THEN [id |-> card.id, name |-> card.name, cost |-> card.cost,
        parent |-> card.parent, bonus |-> card.bonus,
        nation |-> tech.nationValid[1]]
  ELSE card

bonus_card(tech, bonus_text, bonus_name) ==
  with_nation(tech, [id |-> tech.id,
                     name |-> bonus_name,
                     cost |-> tech.cost,
                     parent |-> bonus_parent(tech),
                     bonus |-> bonus_text])

named_card(tech, bonus_text) ==
  bonus_card(tech, bonus_text, bonus_name_of(tech, bonus_text))

make_bonus_tech(tech, bonus_values) ==
  named_card(tech, bonus_text_of(tech, bonus_values))

\* tech.pop("isBonus"), pop("nationValid"), pop("bonusValue"), pop("bonusDiscover")
pop_bonus_fields(tech) ==
  [id |-> tech.id, name |-> tech.name, description |-> tech.description,
   cost |-> tech.cost, row |-> tech.row, column |-> tech.column,
   prereqs |-> tech.prereqs, unlocks |-> tech.unlocks]

\* a loop that keeps every tech that is no bonus tech
tech_branch_keep_all(tech) ==
  IF tech.isBonus /\ ~should_exclude(tech.id) THEN "bonus" ELSE "main"

\* which branch of the loop of identify_bonus_techs a tech takes
tech_branch(tech) ==
  IF tech.isBonus /\ ~should_exclude(tech.id) THEN "bonus"
  ELSE IF should_exclude(tech.id) /\ is_victory(tech.id) THEN "main"
  ELSE IF ~tech.isBonus THEN "main"
  ELSE "none"

\* a round whose bonus text depends on how many bonus techs came before
identify_one_counting(st, k, tech, branch, bonus_values) ==
  CASE branch = "bonus" ->
         IF reads_bonus_values(tech.id) /\ IsNone(bonus_values)
         THEN [st EXCEPT !.raised = TRUE]
         ELSE [st EXCEPT !.bonus =
                 Append(@, [make_bonus_tech(tech,
                              IF IsNone(bonus_values) THEN EmptyDict
                              ELSE Val(bonus_values))
                            EXCEPT !.bonus = @ \o IntStr(Len(st.bonus))])]
    [] branch = "main" ->
         [st EXCEPT !.main = Append(@, pop_bonus_fields(tech)),
                    !.techs[k] = pop_bonus_fields(tech)]
    [] OTHER -> st

\* a round that puts a bonus tech in front of the earlier ones
identify_one_prepend(st, k, tech, branch, bonus_values) ==
  CASE branch = "bonus" ->
         IF reads_bonus_values(tech.id) /\ IsNone(bonus_values)
         THEN [st EXCEPT !.raised = TRUE]
         ELSE [st EXCEPT !.bonus =
                 <<make_bonus_tech(tech,
                     IF IsNone(bonus_values) THEN EmptyDict
                     ELSE Val(bonus_values))>> \o @]
    [] branch = "main" ->
         [st EXCEPT !.main = Append(@, pop_bonus_fields(tech)),
                    !.techs[k] = pop_bonus_fields(tech)]
    [] OTHER -> st

\* One round of the loop of identify_bonus_techs, on tech k.  st holds
\* main_techs, bonus_techs, self.techs (whose dicts the pops change in
\* place) and whether get_bonus_value raised AttributeError:
\* self.bonus_values exists only once parse_bonuses has read bonus.xml.
identify_one(st, k, tech, branch, bonus_values) ==
  CASE branch = "bonus" ->
         IF reads_bonus_values(tech.id) /\ IsNone(bonus_values)
         THEN [st EXCEPT !.raised = TRUE]
         ELSE [st EXCEPT !.bonus =
                 Append(@, make_bonus_tech(tech,
                          IF IsNone(bonus_values) THEN EmptyDict
                          ELSE Val(bonus_values)))]
    [] branch = "main" ->
         [st EXCEPT !.main = Append(@, pop_bonus_fields(tech)),
                    !.techs[k] = pop_bonus_fields(tech)]
    [] OTHER -> st

\* the loop from tech k on; it ends where a round raises
RECURSIVE identify_loop(_, _, _)
identify_loop(k, bonus_values, st) ==
  IF k > Len(st.techs) \/ st.raised THEN st
  ELSE identify_loop(k + 1, bonus_values,
         identify_one(st, k, st.techs[k], tech_branch(st.techs[k]), bonus_values))

\* ------------------------------------------------------------------------
\* export_data

\* a grouping that puts each id in front of its nation's list
RECURSIVE group_by_nation_prepend(_, _)
group_by_nation_prepend(bonus_techs, idx) ==
  IF Len(bonus_techs) = 0 THEN idx
  ELSE group_by_nation_prepend(Tail(bonus_techs),
         IF "nation" \in DOMAIN bonus_techs[1]
         THEN DictSet(idx, bonus_techs[1].nation,
                      <<bonus_techs[1].id>> \o DictGet(idx, bonus_techs[1].nation, <<>>))
         ELSE idx)

\* nation_specific_bonuses: nation -> the ids of the bonus techs that carry
\* it, in the order of bonus_techs
RECURSIVE group_by_nation(_, _)
group_by_nation(bonus_techs, idx) ==
  IF Len(bonus_techs) = 0 THEN idx
  ELSE LET bonus == bonus_techs[1]
       IN group_by_nation(Tail(bonus_techs),
            IF "nation" \in DOMAIN bonus /\ Len(bonus.nation) > 0
            THEN DictSet(idx, bonus.nation,
                         Append(DictGet(idx, bonus.nation, <<>>), bonus.id))
            ELSE idx)

export_data(techs, bonus_techs, nations) ==
  [techs |-> techs,
   bonusTechs |-> bonus_techs,
   nationData |->
     [startingTechs |-> [n \in DOMAIN nations |-> nations[n].startingTechs],
      nationNames |-> [n \in DOMAIN nations |-> nations[n].name],
      nationSpecificBonuses |-> group_by_nation(bonus_techs, EmptyDict)]]

\* ------------------------------------------------------------------------
\* generate_html: the entries written into the page.  The f-strings format
\* every value with str().

html_tech_entry(tech, heap) ==
  [id |-> tech.id, name |-> tech.name, cost |-> IntStr(tech.cost),
   column |-> IntStr(tech.column), row |-> IntStr(tech.row),
   prereqs |-> tech.prereqs,
   units |-> heap[tech.unlocks].units,
   improvements |-> heap[tech.unlocks].improvements,
   laws |-> heap[tech.unlocks].laws,
   projects |-> heap[tech.unlocks].projects]

html_bonus_entry(bonus) ==
  LET entry == [id |-> bonus.id, name |-> bonus.name, cost |-> IntStr(bonus.cost),
                parent |-> PyStr(bonus.parent), bonus |-> bonus.bonus]
  IN IF "nation" \in DOMAIN bonus /\ Len(bonus.nation) > 0
     THEN [id |-> entry.id, name |-> entry.name, cost |-> entry.cost,
           parent |-> entry.parent, bonus |-> entry.bonus, nation |-> bonus.nation]
     ELSE entry

html_page(data, heap) ==
  [techs |-> [i \in 1..Len(data.techs) |-> html_tech_entry(data.techs[i], heap)],
   bonusTechs |-> [i \in 1..Len(data.bonusTechs) |-> html_bonus_entry(data.bonusTechs[i])],
   startingTechs |-> data.nationData.startingTechs,
   nationSpecificBonuses |-> data.nationData.nationSpecificBonuses]
\* ------------------------------------------------------------------------
\* The inputs: the directories main() is run on

\* bounds of the inputs
MaxTechs == 2        \* entries of a tech table built from TechCatalogue
MaxPairs == 2        \* Pairs of an abTechPrereq
MaxNationValid == 2  \* zValues of an aeNationValid
MaxUnits == 2        \* records of a unit table and of a project table
MaxBonusPairs == 2   \* Pairs of an aiGlobalYields

SeqsUpTo(S, n) == UNION {[1..k -> S] : k \in 0..n}

FileNames ==
  {"text-infos.xml", "text-nation.xml", "text-bonus.xml", "effectPlayer.xml",
   "tech.xml", "nation.xml", "bonus.xml", "unit.xml", "improvement.xml",
   "law.xml", "project.xml"}
OptionalFiles == FileNames \ {"tech.xml"}

\* the tech ids of the inputs
TECH_STONECUTTING == <<"T","E","C","H","_","S","T","O","N","E","C","U","T","T","I","N","G">>
TECH_ARISTOCRACY == <<"T","E","C","H","_","A","R","I","S","T","O","C","R","A","C","Y">>
TECH_BONUS_WORKER == <<"T","E","C","H","_","B","O","N","U","S","_","W","O","R","K","E","R">>
TECH_BONUS_FOOD == <<"T","E","C","H","_","B","O","N","U","S","_","F","O","O","D">>
TECH_STONE_BONUS == <<"T","E","C","H","_","S","T","O","N","E","C","U","T","T","I","N","G","_","B","O","N","U","S","_","S","T","O","N","E">>
TECH_EVENT_GIFT == <<"T","E","C","H","_","E","V","E","N","T","_","G","I","F","T">>
TECH_EVENT_FOOD == <<"T","E","C","H","_","E","V","E","N","T","_","F","O","O","D">>
TECH_ECONOMIC_REFORM == <<"T","E","C","H","_","E","C","O","N","O","M","I","C","_","R","E","F","O","R","M">>
TECH_EVENT_PRESTIGE == <<"T","E","C","H","_","E","V","E","N","T","_","M","I","L","I","T","A","R","Y","_","P","R","E","S","T","I","G","E">>
TECH_MYSTERY == <<"T","E","C","H","_","M","Y","S","T","E","R","Y">>
TECH_LOWER_EVENT == <<"t","e","c","h","_","e","v","e","n","t","_","w","o","r","k","e","r">>

ClassIds ==
  {TECH_STONECUTTING, TECH_BONUS_WORKER, TECH_BONUS_FOOD, TECH_STONE_BONUS,
   TECH_EVENT_GIFT, TECH_EVENT_FOOD, TECH_ECONOMIC_REFORM, TECH_EVENT_PRESTIGE,
   TECH_MYSTERY, TECH_LOWER_EVENT}

\* a tech entry with every optional field absent
BaseTech(id) ==
  [zType |-> id, iCost |-> Elem(<<"5","0">>), iRow |-> Elem(<<"1">>), iColumn |-> Elem(<<"2">>),
   abTechPrereq |-> NoList, EffectPlayer |-> NoElem, Name |-> NoElem,
   Advice |-> NoElem, bHide |-> NoFlag, bTrash |-> NoFlag, bNoFree |-> NoFlag,
   BonusDiscover |-> NoElem, aeNationValid |-> NoList]

Tech(id) == BaseTech(Elem(id))
Flagged(id, hide, trash, nofree) ==
  [Tech(id) EXCEPT !.bHide = hide, !.bTrash = trash, !.bNoFree = nofree]
Hidden(id) == Flagged(id, Flag(<<"1">>), NoFlag, NoFlag)

TextEntry(tag, text) == [zTag |-> Elem(tag), zText |-> Elem(text)]
Pair(index, value) == [zIndex |-> index, bValue |-> value]
YieldPair(index, value) == [zIndex |-> index, iValue |-> value]
Bonus(id, pairs) == [zType |-> Elem(id), aiGlobalYields |-> List(pairs)]
Unit(id, prereq) == [zType |-> Elem(id), TechPrereq |-> prereq]
Nation(id, name, starting) ==
  [zType |-> Elem(id), Name |-> name, aeStartingTech |-> List(starting)]
Effect(id, units, projects) ==
  [zType |-> Elem(id), aeUnitUnlock |-> units, aeImprovementUnlock |-> <<>>,
   aeLawUnlock |-> <<>>, aeProjectUnlock |-> projects, aeSpecialistUnlock |-> <<>>]

\* the tables every input starts from
BaseTables ==
     ("text-infos.xml" :> <<TextEntry(<<"T","E","X","T","_","T","E","C","H","_","M","Y","S","T","E","R","Y">>, <<"<","b",">","M","y","s","t","e","r","y","<","/","b",">"," ","C","u","l","t">>)>>)
  @@ ("text-nation.xml" :> <<TextEntry(<<"T","E","X","T","_","N","A","T","I","O","N","_","R","O","M","E">>, <<"R","o","m","e">>)>>)
  @@ ("text-bonus.xml" :> <<TextEntry(<<"T","E","X","T","_","T","E","C","H","_","M","Y","S","T","E","R","Y">>, <<"~","C","u","l","t","~"," ","{","0","}">>)>>)
  @@ ("effectPlayer.xml" :>
        <<Effect(<<"E","F","F","E","C","T","P","L","A","Y","E","R","_","T","E","C","H","_","A">>, <<Elem(<<"U","N","I","T","_","S","L","I","N","G","E","R">>)>>,
                 <<Elem(<<"P","R","O","J","E","C","T","_","A","R","C","H","I","V","E","_","1">>)>>)>>)
  @@ ("tech.xml" :> <<Tech(TECH_STONECUTTING), Hidden(TECH_BONUS_WORKER)>>)
  @@ ("nation.xml" :>
        <<Nation(<<"N","A","T","I","O","N","_","R","O","M","E">>, Elem(<<"T","E","X","T","_","N","A","T","I","O","N","_","R","O","M","E">>),
                 <<Elem(TECH_STONECUTTING)>>),
          Nation(<<"N","A","T","I","O","N","_","N","O","N","E">>, NoElem, <<>>)>>)
  @@ ("bonus.xml" :>
        <<Bonus(<<"B","O","N","U","S","_","T","E","C","H","_","B","O","N","U","S","_","F","O","O","D">>, <<YieldPair(Elem(<<"Y","I","E","L","D","_","F","O","O","D">>), Elem(<<"3","0","0">>))>>)>>)
  @@ ("unit.xml" :> <<Unit(<<"U","N","I","T","_","W","A","R","R","I","O","R">>, Elem(TECH_STONECUTTING))>>)
  @@ ("improvement.xml" :> <<>>)
  @@ ("law.xml" :> <<>>)
  @@ ("project.xml" :> <<Unit(<<"P","R","O","J","E","C","T","_","W","A","L","L","S","_","1">>, Elem(TECH_STONECUTTING))>>)

\* a run: the command line (the directory exists, a template exists, no
\* --export-json unless said otherwise), the files present and their entries
Run(files, tables) ==
  [dir |-> TRUE, template |-> TRUE, export_json |-> FALSE, files |-> files,
   tables |-> [f \in FileNames |-> IF f \in files THEN tables[f] ELSE <<>>]]

WithTechs(entries) == Run(FileNames, ("tech.xml" :> entries) @@ BaseTables)

\* the command line: a missing directory, a missing template, --export-json
MainInputs ==
  {[Run(FileNames, BaseTables) EXCEPT !.dir = d, !.template = t, !.export_json = j] :
     d \in BOOLEAN, t \in BOOLEAN, j \in BOOLEAN}

\* every set of missing optional tables
MissingInputs ==
  {Run(fs \cup {"tech.xml"},
       ("tech.xml" :> <<Tech(TECH_STONECUTTING), Hidden(TECH_BONUS_FOOD)>>) @@ BaseTables) :
     fs \in SUBSET OptionalFiles}

\* no tech table
NoTechInputs ==
  {[Run(fs, BaseTables) EXCEPT !.template = t, !.export_json = j] :
     fs \in {OptionalFiles, {}, OptionalFiles \ {"bonus.xml"}},
     t \in BOOLEAN, j \in BOOLEAN}

\* one tech: every id with every combination of the three flags, with and
\* without bonus.xml
FlagValues == {NoFlag, Flag(<<"1">>)}
ClassInputs ==
  {Run(FileNames \ missing,
       ("tech.xml" :> <<Flagged(id, h, t, n)>>) @@ BaseTables) :
     id \in ClassIds, h \in FlagValues, t \in FlagValues, n \in FlagValues,
     missing \in {{}, {"bonus.xml"}}}

\* the spellings of a flag
FlagSpellings ==
  {NoFlag, Flag(<<>>), Flag(<<"1">>), Flag(<<"0">>), Flag(<<"t","r","u","e">>), Flag(<<" ","1">>),
   FlagAttr(<<"1">>, <<>>), FlagAttr(<<"1">>, <<"0">>), FlagAttr(<<"0">>, <<"1">>)}
FlagInputs ==
  {WithTechs(<<Flagged(TECH_BONUS_WORKER, NoFlag, f, NoFlag)>>) : f \in FlagSpellings}

\* tech tables of several entries, one of them without a zType
TechCatalogue ==
  {Tech(TECH_STONECUTTING), Hidden(TECH_BONUS_WORKER), Hidden(TECH_BONUS_FOOD),
   Hidden(TECH_EVENT_GIFT), Hidden(TECH_ECONOMIC_REFORM), Tech(TECH_EVENT_GIFT),
   BaseTech(EmptyElem)}
TableInputs == {WithTechs(entries) : entries \in SeqsUpTo(TechCatalogue, MaxTechs)}

\* the prerequisites of one tech
PairValues ==
  {Pair(Elem(<<"T","E","C","H","_","A">>), Elem(<<"1">>)), Pair(Elem(<<"T","E","C","H","_","B">>), Elem(<<"1">>)),
   Pair(Elem(<<"T","E","C","H","_","C">>), Elem(<<"0">>)), Pair(Elem(<<"T","E","C","H","_","D">>), Elem(<<"t","r","u","e">>)),
   Pair(Elem(<<"T","E","C","H","_","E">>), EmptyElem), Pair(EmptyElem, Elem(<<"1">>)),
   Pair(Elem(TECH_BONUS_WORKER), Elem(<<"1">>))}
PrereqInputs ==
  {WithTechs(<<[tech EXCEPT !.abTechPrereq = List(pairs)]>>) :
     tech \in {Hidden(TECH_BONUS_WORKER), Tech(TECH_STONECUTTING), Hidden(TECH_MYSTERY)},
     pairs \in SeqsUpTo(PairValues, MaxPairs)}

\* two techs of the tree that declare themselves and one another
CyclePairs ==
  {Pair(Elem(TECH_STONECUTTING), Elem(<<"1">>)), Pair(Elem(TECH_ARISTOCRACY), Elem(<<"1">>)),
   Pair(Elem(TECH_MYSTERY), Elem(<<"0">>)), Pair(Elem(TECH_ARISTOCRACY), Elem(<<" ","1">>))}
CycleBack ==
  {<<>>, <<Pair(Elem(TECH_STONECUTTING), Elem(<<"1">>))>>,
   <<Pair(Elem(TECH_STONECUTTING), Elem(<<"1">>)), Pair(Elem(TECH_MYSTERY), Elem(<<"0">>))>>,
   <<Pair(Elem(TECH_STONECUTTING), Elem(<<"t","r","u","e">>))>>}
CycleInputs ==
  {WithTechs(<<[Tech(TECH_STONECUTTING) EXCEPT !.abTechPrereq = List(pairs)],
               [Tech(TECH_ARISTOCRACY) EXCEPT !.abTechPrereq = List(back)]>>) :
     pairs \in SeqsUpTo(CyclePairs, MaxPairs), back \in CycleBack}

\* the nation restriction of one tech
NationValues == {Elem(<<"N","A","T","I","O","N","_","R","O","M","E">>), Elem(<<"N","A","T","I","O","N","_","G","R","E","E","C","E">>), EmptyElem}
NationValidInputs ==
  {WithTechs(<<[tech EXCEPT !.aeNationValid = List(nats)]>>) :
     tech \in {Hidden(TECH_BONUS_WORKER), Tech(TECH_STONECUTTING)},
     nats \in SeqsUpTo(NationValues, MaxNationValid)}

\* the numeric fields of one tech
IntFields ==
  {NoElem, EmptyElem, Elem(<<"5">>), Elem(<<"-","3">>), Elem(<<" ","7"," ">>), Elem(<<"a","b","c">>),
   Elem(<<"1","2",".","5">>), Elem(<<"1","_","0">>), Elem(<<"+","4">>), Elem(<<"0","0","7">>), Elem(<<"1"," ","2">>)}
IntInputs ==
  {WithTechs(<<[tech EXCEPT !.iCost = c, !.iRow = r, !.iColumn = k]>>) :
     tech \in {Hidden(TECH_BONUS_WORKER), Tech(TECH_STONECUTTING)},
     c \in IntFields, r \in {Elem(<<"1">>), Elem(<<"x">>), NoElem},
     k \in {Elem(<<"2">>), Elem(<<"-">>), EmptyElem}}

\* unit and project tables, over two techs that name the same EffectPlayer
\* entry or none
UnitValues ==
  {Unit(<<"U","N","I","T","_","W","A","R","R","I","O","R">>, Elem(TECH_STONECUTTING)),
   Unit(<<"U","N","I","T","_","A","R","C","H","E","R">>, Elem(TECH_ARISTOCRACY)),
   Unit(<<"U","N","I","T","_","S","C","O","U","T">>, NoElem),
   Unit(<<"U","N","I","T","_","B","I","R","E","M","E">>, Elem(<<"T","E","C","H","_","N","A","V","I","G","A","T","I","O","N">>)),
   Unit(<<"U","N","I","T","_","W","O","R","K","E","R">>, Elem(TECH_BONUS_WORKER))}
ProjectValues ==
  {Unit(<<"P","R","O","J","E","C","T","_","W","A","L","L","S","_","1">>, Elem(TECH_STONECUTTING)),
   Unit(<<"P","R","O","J","E","C","T","_","W","A","L","L","S","_","2">>, Elem(TECH_STONECUTTING)),
   Unit(<<"P","R","O","J","E","C","T","_","W","A","L","L","S","_","2">>, Elem(TECH_ARISTOCRACY)),
   Unit(<<"P","R","O","J","E","C","T","_","F","O","R","U","M">>, Elem(TECH_ARISTOCRACY)),
   Unit(<<"P","R","O","J","E","C","T","_","M","O","A","T">>, EmptyElem)}
UnlockTechs ==
  {<<[Tech(TECH_STONECUTTING) EXCEPT !.EffectPlayer = e],
     [Tech(TECH_ARISTOCRACY) EXCEPT !.EffectPlayer = e],
     Hidden(TECH_BONUS_WORKER)>> :
     e \in {NoElem, Elem(<<"E","F","F","E","C","T","P","L","A","Y","E","R","_","T","E","C","H","_","A">>)}}
UnlockInputs ==
  {Run(FileNames, ("tech.xml" :> ts) @@ ("unit.xml" :> us) @@ BaseTables) :
     ts \in UnlockTechs, us \in SeqsUpTo(UnitValues, MaxUnits)}
  \cup
  {Run(FileNames, ("tech.xml" :> ts) @@ ("project.xml" :> ps) @@ BaseTables) :
     ts \in UnlockTechs, ps \in SeqsUpTo(ProjectValues, MaxUnits)}

\* bonus tables, well-formed and not
YieldPairValues ==
  {YieldPair(Elem(<<"Y","I","E","L","D","_","F","O","O","D">>), Elem(<<"3","0","0">>)),
   YieldPair(Elem(<<"Y","I","E","L","D","_","F","O","O","D">>), Elem(<<"0">>)),
   YieldPair(Elem(<<"Y","I","E","L","D","_","F","O","O","D">>), Elem(<<"l","o","t","s">>)),
   YieldPair(Elem(<<"Y","I","E","L","D","_","F","O","O","D">>), EmptyElem),
   YieldPair(EmptyElem, Elem(<<"5">>)),
   YieldPair(NoElem, Elem(<<"x">>)),
   YieldPair(Elem(<<"Y","I","E","L","D","_","S","T","O","N","E">>), Elem(<<"-","4","0">>))}
BonusInputs ==
  {Run(FileNames,
       ("tech.xml" :> <<Hidden(TECH_BONUS_FOOD), Tech(TECH_STONECUTTING)>>)
       @@ ("bonus.xml" :> <<Bonus(<<"B","O","N","U","S","_","T","E","C","H","_","B","O","N","U","S","_","F","O","O","D">>, pairs)>>) @@ BaseTables) :
     pairs \in SeqsUpTo(YieldPairValues, MaxBonusPairs)}

\* one candidate of each rule that reads the bonus values, and its entry
EconomyIds ==
  {[id |-> TECH_STONE_BONUS, index |-> <<"Y","I","E","L","D","_","S","T","O","N","E">>],
   [id |-> TECH_BONUS_FOOD, index |-> <<"Y","I","E","L","D","_","F","O","O","D">>],
   [id |-> <<"T","E","C","H","_","B","O","N","U","S","_","O","R","D","E","R","S">>, index |-> <<"Y","I","E","L","D","_","O","R","D","E","R","S">>],
   [id |-> <<"T","E","C","H","_","m","o","n","e","y","_","B","O","N","U","S">>, index |-> <<"Y","I","E","L","D","_","M","O","N","E","Y">>],
   [id |-> <<"T","E","C","H","_","B","O","N","U","S","_","C","I","V","I","C","S">>, index |-> <<"Y","I","E","L","D","_","C","I","V","I","C","S">>],
   [id |-> <<"T","E","C","H","_","B","O","N","U","S","_","T","R","A","I","N","I","N","G">>, index |-> <<"T","r","a","i","n","i","n","g">>]}
EconomyPairs(index) ==
  {YieldPair(Elem(index), Elem(<<"3","5">>)), YieldPair(Elem(index), Elem(<<"0">>)),
   YieldPair(Elem(index), Elem(<<"-","4","0">>)), YieldPair(Elem(<<"Y","I","E","L","D","_","I","R","O","N">>), Elem(<<"7">>))}
EconomyRuns(e) ==
  {Run(FileNames,
       ("tech.xml" :> <<Hidden(e.id)>>)
       @@ ("bonus.xml" :> <<Bonus(<<"B","O","N","U","S","_">> \o key, pairs)>>) @@ BaseTables) :
     key \in {e.id, TECH_MYSTERY},
     pairs \in SeqsUpTo(EconomyPairs(e.index), MaxBonusPairs)}
EconomyInputs == UNION {EconomyRuns(e) : e \in EconomyIds}
\* candidates whose id holds the patterns of several rules, or a pattern
\* that is part of another
RuleIds ==
  {<<"T","E","C","H","_","B","O","R","D","E","R","S","_","B","O","N","U","S">>, <<"T","E","C","H","_","O","R","D","E","R","S","_","B","O","N","U","S">>, <<"T","E","C","H","_","A","R","C","H","E","R","_","B","O","N","U","S">>,
   <<"T","E","C","H","_","C","A","M","E","L","_","A","R","C","H","E","R","_","B","O","N","U","S">>, <<"T","E","C","H","_","H","O","R","S","E","_","A","R","C","H","E","R","_","B","O","N","U","S">>, <<"T","E","C","H","_","H","O","R","S","E","M","A","N","_","B","O","N","U","S">>,
   <<"T","E","C","H","_","A","K","K","A","D","I","A","N","_","A","R","C","H","E","R","_","B","O","N","U","S">>, <<"T","E","C","H","_","C","I","M","M","E","R","I","A","N","_","A","R","C","H","E","R","_","B","O","N","U","S">>,
   <<"T","E","C","H","_","M","E","D","J","A","Y","_","A","R","C","H","E","R","_","B","O","N","U","S">>, <<"T","E","C","H","_","B","E","J","A","_","A","R","C","H","E","R","_","B","O","N","U","S">>,
   <<"T","E","C","H","_","C","A","T","A","P","H","R","A","C","T","_","A","R","C","H","E","R","_","B","O","N","U","S">>, <<"T","E","C","H","_","C","H","A","R","I","O","T","_","B","O","N","U","S">>,
   <<"T","E","C","H","_","L","I","G","H","T","_","C","H","A","R","I","O","T","_","B","O","N","U","S">>, <<"T","E","C","H","_","H","I","T","T","I","T","E","_","C","H","A","R","I","O","T","_","1","_","B","O","N","U","S">>,
   <<"T","E","C","H","_","H","I","T","T","I","T","E","_","C","H","A","R","I","O","T","_","B","O","N","U","S">>, <<"T","E","C","H","_","H","O","R","S","E","M","A","N","_","W","A","R","_","E","L","E","P","H","A","N","T","_","B","O","N","U","S">>,
   <<"T","E","C","H","_","H","O","R","S","E","_","A","R","C","H","E","R","_","C","A","M","E","L","_","A","R","C","H","E","R","_","B","O","N","U","S">>, <<"T","E","C","H","_","R","E","S","O","U","R","C","E","_","B","I","R","E","M","E","_","B","O","N","U","S">>,
   <<"T","E","C","H","_","W","O","R","K","E","R","_","F","O","O","D">>, <<"t","e","c","h","_","c","a","m","e","l","_","a","r","c","h","e","r","_","b","o","n","u","s">>}
RuleInputs == {WithTechs(<<Hidden(id)>>) : id \in RuleIds}

\* every order of a table of main techs, bonus candidates and an event,
\* each with a cost of its own
OrderCatalogue ==
  {[Tech(TECH_STONECUTTING) EXCEPT !.iCost = Elem(<<"5">>)],
   [Hidden(TECH_BONUS_WORKER) EXCEPT !.iCost = Elem(<<"0","0","7">>)],
   [Tech(TECH_ARISTOCRACY) EXCEPT !.iCost = Elem(<<"2">>)],
   [Hidden(TECH_BONUS_FOOD) EXCEPT !.iCost = Elem(<<"1">>)],
   Hidden(TECH_EVENT_GIFT)}
OrderInputs ==
  {WithTechs(entries) :
     entries \in {p \in [1..Cardinality(OrderCatalogue) -> OrderCatalogue] :
                    \A a, b \in DOMAIN p : p[a] = p[b] => a = b}}


\* the Name of one bonus candidate and the text the table holds for the tag
NameTexts == {<<"~","C","u","l","t","~"," ","{","0","}">>, <<"{","0","}">>, <<"~">>, <<"<","b",">","C","u","l","t","<","/","b",">">>, <<"<","i",">">>}
NameIds ==
  {TECH_MYSTERY, <<"T","E","C","H","_">>, <<"T","E","C","H","_","R","E","S","O","U","R","C","E","_","G","E","M","S","_","B","O","N","U","S">>, <<"T","E","C","H","_","R","E","S","O","U","R","C","E","_","_","B","O","N","U","S">>,
   <<"T","E","C","H","_","R","E","S","O","U","R","C","E","_","J","A","D","E">>, TECH_BONUS_WORKER}
NameInputs ==
  {Run(FileNames,
       ("tech.xml" :> <<[Hidden(id) EXCEPT !.Name = n]>>)
       @@ ("text-bonus.xml" :> <<TextEntry(<<"T","E","X","T","_","T","E","C","H","_","M","Y","S","T","E","R","Y">>, txt)>>) @@ BaseTables) :
     id \in NameIds,
     n \in {NoElem, Elem(<<"T","E","X","T","_","T","E","C","H","_","M","Y","S","T","E","R","Y">>), Elem(<<"T","E","X","T","_","T","E","C","H","_","U","N","K","N","O","W","N">>)},
     txt \in NameTexts}

\* one bonus candidate of the WORKER rule, with the bonus table missing,
\* empty, or holding values for the tech
WorkerIds ==
  {TECH_BONUS_WORKER, TECH_LOWER_EVENT, <<"T","E","C","H","_","W","O","R","K","E","R","_","F","O","O","D">>, <<"T","E","C","H","_","S","T","O","N","E","_","W","O","R","K","E","R">>,
   <<"T","E","C","H","_","S","T","O","N","E","C","U","T","T","I","N","G","_","W","O","R","K","E","R">>}
WorkerTables(id) ==
  {<<>>,
   <<Bonus(<<"B","O","N","U","S","_">> \o id, <<YieldPair(Elem(<<"Y","I","E","L","D","_","F","O","O","D">>), Elem(<<"3","0","0">>)),
                               YieldPair(Elem(<<"Y","I","E","L","D","_","S","T","O","N","E">>), Elem(<<"4","0">>))>>)>>}
WorkerInputs ==
  {Run(FileNames \ missing,
       ("tech.xml" :> <<Flagged(id, NoFlag, NoFlag, Flag(<<"1">>))>>)
       @@ ("bonus.xml" :> table) @@ BaseTables) :
     id \in WorkerIds, table \in UNION {WorkerTables(w) : w \in WorkerIds},
     missing \in {{}, {"bonus.xml"}}}

\* tech tables whose entries carry nation restrictions
NationCatalogue ==
  {[Hidden(TECH_BONUS_WORKER) EXCEPT !.aeNationValid = List(<<Elem(<<"N","A","T","I","O","N","_","G","R","E","E","C","E">>)>>)],
   [Hidden(TECH_BONUS_FOOD) EXCEPT !.aeNationValid =
      List(<<Elem(<<"N","A","T","I","O","N","_","R","O","M","E">>), Elem(<<"N","A","T","I","O","N","_","G","R","E","E","C","E">>)>>)],
   [Hidden(TECH_MYSTERY) EXCEPT !.aeNationValid = List(<<Elem(<<"N","A","T","I","O","N","_","G","R","E","E","C","E">>)>>)],
   [Tech(TECH_STONECUTTING) EXCEPT !.aeNationValid = List(<<Elem(<<"N","A","T","I","O","N","_","E","G","Y","P","T">>)>>)],
   Hidden(TECH_STONE_BONUS)}
NationGroupInputs ==
  {WithTechs(entries) : entries \in SeqsUpTo(NationCatalogue, MaxTechs)}
\* ------------------------------------------------------------------------
\* The state of one run of main()

VARIABLES
  xml,                 \* the command line and the files of xml_dir (read only)
  pc,                  \* the step main() runs next
  text_data,           \* self.text_data
  effect_player_data,  \* self.effect_player_data: effect id -> unlocks dict
  heap,                \* the unlocks dicts, by reference
  techs,               \* self.techs
  bonus_techs,         \* self.bonus_techs
  nations,             \* self.nations
  bonus_values,        \* self.bonus_values: PyNone until parse_bonuses sets it
  data,                \* main's `data`: PyNone until export_data returns
  out_json,            \* the file of --export-json: PyNone until written
  out_html,            \* the output page: PyNone until written
  log,                 \* the lines printed that report a missing input
  rc                   \* main's return value: PyNone while running

vars == <<xml, pc, text_data, effect_player_data, heap, techs, bonus_techs,
          nations, bonus_values, data, out_json, out_html, log, rc>>

parser == <<text_data, effect_player_data, heap, techs, bonus_techs, nations,
            bonus_values>>
outputs == <<data, out_json, out_html, rc>>

Init ==
  /\ \/ xml \in MainInputs
     \/ xml \in MissingInputs
     \/ xml \in NoTechInputs
     \/ xml \in ClassInputs
     \/ xml \in FlagInputs
     \/ xml \in TableInputs
     \/ xml \in PrereqInputs
     \/ xml \in NationValidInputs
     \/ xml \in IntInputs
     \/ xml \in UnlockInputs
     \/ xml \in BonusInputs
     \/ xml \in NameInputs
     \/ xml \in WorkerInputs
     \/ xml \in NationGroupInputs
     \/ xml \in CycleInputs
     \/ xml \in EconomyInputs
     \/ xml \in RuleInputs
     \/ xml \in OrderInputs
  /\ pc = "main"
  /\ text_data = EmptyDict
  /\ effect_player_data = EmptyDict
  /\ heap = EmptyDict
  /\ techs = <<>>
  /\ bonus_techs = <<>>
  /\ nations = EmptyDict
  /\ bonus_values = PyNone
  /\ data = PyNone
  /\ out_json = PyNone
  /\ out_html = PyNone
  /\ log = <<>>
  /\ rc = PyNone

Exists(file) == file \in xml.files
Warn(file) == Append(log, <<"Warning", file>>)

\* main, up to the construction of the parser
main ==
  /\ pc = "main"
  /\ IF xml.dir
     THEN pc' = "parse_text_infos" /\ UNCHANGED <<log, rc>>
     ELSE /\ pc' = "exit"
          /\ log' = Append(log, <<"Error", "xml_dir">>)
          /\ rc' = Some(1)
  /\ UNCHANGED <<xml, parser, data, out_json, out_html>>

\* a text pass that moves on without reading its file
TextPass_deferred(step, file, next) ==
  /\ pc = step
  /\ pc' = next
  /\ UNCHANGED <<xml, parser, log, outputs>>

\* what the three text passes do with their file
TextPass(step, file, next) ==
  /\ pc = step
  /\ pc' = next
  /\ IF Exists(file)
     THEN text_data' = load_text(xml.tables[file], text_data) /\ UNCHANGED log
     ELSE log' = Warn(file) /\ UNCHANGED text_data
  /\ UNCHANGED <<xml, effect_player_data, heap, techs, bonus_techs, nations,
                 bonus_values, outputs>>

parse_text_infos == TextPass("parse_text_infos", "text-infos.xml", "parse_text_nation")
parse_text_nation == TextPass("parse_text_nation", "text-nation.xml", "parse_text_bonus")
parse_text_bonus == TextPass("parse_text_bonus", "text-bonus.xml", "parse_effect_player")

parse_effect_player ==
  /\ pc = "parse_effect_player"
  /\ pc' = "parse_techs"
  /\ IF Exists("effectPlayer.xml")
     THEN LET st == load_effects(xml.tables["effectPlayer.xml"], 1,
                                 [epd |-> effect_player_data, heap |-> heap])
          IN /\ effect_player_data' = st.epd
             /\ heap' = st.heap
             /\ UNCHANGED log
     ELSE log' = Warn("effectPlayer.xml") /\ UNCHANGED <<effect_player_data, heap>>
  /\ UNCHANGED <<xml, text_data, techs, bonus_techs, nations, bonus_values, outputs>>

\* parse_techs: without tech.xml it prints an error and returns, and
\* parse_all goes on with the next pass
parse_techs ==
  /\ pc = "parse_techs"
  /\ pc' = "parse_nations"
  /\ IF Exists("tech.xml")
     THEN LET st == load_techs(xml.tables["tech.xml"], 1, text_data, effect_player_data,
                               [techs |-> techs, heap |-> heap])
          IN /\ techs' = st.techs
             /\ heap' = st.heap
             /\ UNCHANGED log
     ELSE log' = Append(log, <<"Error", "tech.xml">>) /\ UNCHANGED <<techs, heap>>
  /\ UNCHANGED <<xml, text_data, effect_player_data, bonus_techs, nations,
                 bonus_values, outputs>>

parse_nations ==
  /\ pc = "parse_nations"
  /\ pc' = "parse_bonuses"
  /\ IF Exists("nation.xml")
     THEN nations' = load_nations(xml.tables["nation.xml"], text_data, nations) /\ UNCHANGED log
     ELSE log' = Warn("nation.xml") /\ UNCHANGED nations
  /\ UNCHANGED <<xml, text_data, effect_player_data, heap, techs, bonus_techs,
                 bonus_values, outputs>>

\* parse_bonuses: self.bonus_values is first assigned here, after the file
\* was found; an entry that raises ends the run
parse_bonuses ==
  /\ pc = "parse_bonuses"
  /\ IF Exists("bonus.xml")
     THEN LET st == load_bonuses(xml.tables["bonus.xml"], [values |-> EmptyDict, raised |-> FALSE])
          IN /\ bonus_values' = Some(st.values)
             /\ pc' = IF st.raised THEN "raised" ELSE "parse_unit_unlocks"
             /\ UNCHANGED log
     ELSE /\ log' = Warn("bonus.xml")
          /\ pc' = "parse_unit_unlocks"
          /\ UNCHANGED bonus_values
  /\ UNCHANGED <<xml, text_data, effect_player_data, heap, techs, bonus_techs,
                 nations, outputs>>

\* what the four unlock passes do: without the file nothing, else the
\* category of every tech with an entry in the mapping is assigned
UnlockPass(step, file, category, mapping, next) ==
  /\ pc = step
  /\ pc' = next
  /\ IF Exists(file)
     THEN heap' = assign_unlocks(techs, 1, category, mapping, heap) /\ UNCHANGED log
     ELSE log' = Warn(file) /\ UNCHANGED heap
  /\ UNCHANGED <<xml, text_data, effect_player_data, techs, bonus_techs, nations,
                 bonus_values, outputs>>

parse_unit_unlocks ==
  UnlockPass("parse_unit_unlocks", "unit.xml", "units",
             reverse_index(xml.tables["unit.xml"], <<"U","N","I","T","_">>, EmptyDict),
             "parse_improvement_unlocks")

parse_improvement_unlocks ==
  UnlockPass("parse_improvement_unlocks", "improvement.xml", "improvements",
             manual_improvement_mapping, "parse_law_unlocks")

parse_law_unlocks ==
  UnlockPass("parse_law_unlocks", "law.xml", "laws",
             manual_law_mapping, "parse_project_unlocks")

parse_project_unlocks ==
  UnlockPass("parse_project_unlocks", "project.xml", "projects",
             reverse_index(xml.tables["project.xml"], <<"P","R","O","J","E","C","T","_">>, EmptyDict),
             "identify_bonus_techs")

\* identify_bonus_techs: the two lists replace self.techs and
\* self.bonus_techs after the loop; when get_bonus_value raises, the run
\* ends inside the loop
identify_end(st) ==
  IF st.raised
  THEN /\ pc' = "raised"
       /\ techs' = st.techs
       /\ UNCHANGED bonus_techs
  ELSE /\ pc' = "export_data"
       /\ techs' = st.main
       /\ bonus_techs' = st.bonus

identify_bonus_techs ==
  /\ pc = "identify_bonus_techs"
  /\ identify_end(identify_loop(1, bonus_values,
        [main |-> <<>>, bonus |-> <<>>, techs |-> techs, raised |-> FALSE]))
  /\ UNCHANGED <<xml, text_data, effect_player_data, heap, nations, bonus_values,
                 outputs, log>>

\* main: data = parser.export_data()
export ==
  /\ pc = "export_data"
  /\ pc' = "export_json"
  /\ data' = Some(export_data(techs, bonus_techs, nations))
  /\ UNCHANGED <<xml, parser, out_json, out_html, log, rc>>

\* main: the JSON file, when --export-json is given
export_json ==
  /\ pc = "export_json"
  /\ pc' = "generate_html"
  /\ out_json' = IF xml.export_json THEN data ELSE out_json
  /\ UNCHANGED <<xml, parser, data, out_html, log, rc>>

\* main: generate_html and the return value; without a template nothing is
\* written
generate_html ==
  /\ pc = "generate_html"
  /\ pc' = "exit"
  /\ IF xml.template
     THEN /\ out_html' = Some(html_page(Val(data), heap))
          /\ rc' = Some(0)
          /\ UNCHANGED log
     ELSE /\ log' = Append(log, <<"Error", "template">>)
          /\ rc' = Some(1)
          /\ UNCHANGED out_html
  /\ UNCHANGED <<xml, parser, data, out_json>>

Next ==
  \/ main
  \/ parse_text_infos
  \/ parse_text_nation
  \/ parse_text_bonus
  \/ parse_effect_player
  \/ parse_techs
  \/ parse_nations
  \/ parse_bonuses
  \/ parse_unit_unlocks
  \/ parse_improvement_unlocks
  \/ parse_law_unlocks
  \/ parse_project_unlocks
  \/ identify_bonus_techs
  \/ export
  \/ export_json
  \/ generate_html

Spec == Init /\ [][Next]_vars
\* ------------------------------------------------------------------------
\* Properties.  They are stated over the input (xml) and what the run has
\* produced, with their own reading of the input where the property is about
\* how the input is read.

Exported == ~IsNone(data)
TechEntries == xml.tables["tech.xml"]
Techs == Val(data).techs
BonusTechs == Val(data).bonusTechs

\* the entries of the tech table that have an id, and those whose id no
\* other entry has
Identified == {i \in DOMAIN TechEntries : HasText(TechEntries[i].zType)}
IdOf(i) == TechEntries[i].zType.text
UniqueEntries == {i \in Identified : \A j \in Identified : IdOf(j) = IdOf(i) => j = i}
EntriesOf(id) == {i \in Identified : IdOf(i) = id}

Occurrences(list, id) == Cardinality({k \in DOMAIN list : list[k].id = id})
BonusOf(id) == {k \in DOMAIN BonusTechs : BonusTechs[k].id = id}

HasVictoryMarker(id) ==
  \/ Contains(<<"E","C","O","N","O","M","I","C","_","R","E","F","O","R","M">>, id)
  \/ Contains(<<"M","I","L","I","T","A","R","Y","_","P","R","E","S","T","I","G","E">>, id)
  \/ Contains(<<"I","N","D","U","S","T","R","I","A","L","_","P","R","O","G","R","E","S","S">>, id)
HasEventMarker(id) == Contains(<<"E","V","E","N","T","_">>, id)
HasMarker(id) == HasVictoryMarker(id) \/ HasEventMarker(id)

\* a bonus-flagged entry that is an event and not a victory tech
DroppedEvent(i) ==
  /\ tech_is_bonus(TechEntries[i])
  /\ HasEventMarker(IdOf(i))
  /\ ~HasVictoryMarker(IdOf(i))

C3_NoOutputWithoutTechs ==
  (xml.dir /\ ~Exists("tech.xml")) =>
    /\ IsNone(data)
    /\ IsNone(out_json)
    /\ IsNone(out_html)

\* the economy rules that read the bonus-value table, with the text they
\* give when the table has no value
EconomyDefault(id) ==
  LET u == str_upper(id)
  IN IF Contains(<<"S","T","O","N","E">>, u) /\ Contains(<<"S","T","O","N","E","C","U","T","T","I","N","G">>, u) THEN <<"+","2","0","0"," ","S","t","o","n","e">>
     ELSE IF Contains(<<"W","O","R","K","E","R">>, u) THEN <<>>
     ELSE IF Contains(<<"F","O","O","D">>, u) THEN <<"+","2","0","0"," ","F","o","o","d">>
     ELSE <<>>

\* C4 as stated: a run with optional tables missing never raises, and with
\* bonus.xml missing a bonus candidate of the stone or food rule is a bonus
\* tech with the rule's default text.
C4_MissingTablesTolerated ==
  (Exists("tech.xml") /\ OptionalFiles \ xml.files # {}) =>
    /\ pc # "raised"
    /\ (Exported /\ ~Exists("bonus.xml")) =>
         \A i \in UniqueEntries :
           (tech_is_bonus(TechEntries[i]) /\ ~HasMarker(IdOf(i))
            /\ Len(EconomyDefault(IdOf(i))) > 0) =>
             \E k \in BonusOf(IdOf(i)) : BonusTechs[k].bonus = EconomyDefault(IdOf(i))

\* the Pairs of an entry's abTechPrereq that name a tech and whose bValue is
\* "1", by position
PrereqPairs(i) ==
  LET pairs == TechEntries[i].abTechPrereq.items
  IN {p \in DOMAIN pairs :
        /\ HasText(pairs[p].zIndex)
        /\ pairs[p].bValue.present
        /\ pairs[p].bValue.text = <<"1">>}
Least(S) == CHOOSE n \in S : \A m \in S : n <= m
FirstPrereq(i) ==
  TechEntries[i].abTechPrereq.items[Least(PrereqPairs(i))].zIndex.text

\* C5 as stated: a bonus tech built from an entry without a prerequisite has
\* parent "", in the exported model and in the page.
C5_ParentEmptyString ==
  Exported =>
    \A i \in UniqueEntries : \A k \in BonusOf(IdOf(i)) :
      PrereqPairs(i) = {} =>
        /\ BonusTechs[k].parent = Some(<<>>)
        /\ ~IsNone(out_html) => Val(out_html).bonusTechs[k].parent = <<>>

\* C6: a bonus tech built from an entry with a prerequisite has as parent
\* the zIndex of the first Pair that names a tech with bValue "1"; no later
\* Pair and no Pair with another bValue is the parent.
C6_ParentIsFirstPrereq ==
  Exported =>
    \A i \in UniqueEntries : \A k \in BonusOf(IdOf(i)) :
      PrereqPairs(i) # {} => BonusTechs[k].parent = Some(FirstPrereq(i))

\* a bonus tech whose entry has two prerequisites, the first of them after
\* a Pair that is none, or two different prerequisites
C6_Witness ==
  /\ Exported
  /\ \E i \in UniqueEntries : \E k \in BonusOf(IdOf(i)) :
       /\ Cardinality(PrereqPairs(i)) = 2
       /\ \E p \in PrereqPairs(i) :
            TechEntries[i].abTechPrereq.items[p].zIndex.text # FirstPrereq(i)
       /\ BonusTechs[k].parent = Some(FirstPrereq(i))

\* the zValues of an entry's aeNationValid that have a text, by position
DeclaredNations(i) ==
  LET values == TechEntries[i].aeNationValid.items
  IN {p \in DOMAIN values : HasText(values[p])}
FirstNation(i) == TechEntries[i].aeNationValid.items[Least(DeclaredNations(i))].text

\* C7: a bonus tech has the key nation iff its entry declares a non-empty
\* aeNationValid value, and nation is then the first of them.
C7_NationIffDeclared ==
  Exported =>
    \A i \in UniqueEntries : \A k \in BonusOf(IdOf(i)) :
      /\ ("nation" \in DOMAIN BonusTechs[k]) <=> (DeclaredNations(i) # {})
      /\ DeclaredNations(i) # {} => BonusTechs[k].nation = FirstNation(i)

\* a bonus tech with a nation whose entry declares two different nations
C7_Witness ==
  /\ Exported
  /\ \E i \in UniqueEntries : \E k \in BonusOf(IdOf(i)) :
       /\ Cardinality(DeclaredNations(i)) = 2
       /\ \E p \in DeclaredNations(i) :
            TechEntries[i].aeNationValid.items[p].text # FirstNation(i)
       /\ BonusTechs[k].nation = FirstNation(i)

\* the records of a unit or project table that declare a tech, and the
\* display names of those that declare tech_id, in declaration order
Declares(record) == HasText(record.zType) /\ HasText(record.TechPrereq)
NamesFor(records, prefix, tech_id) ==
  LET ForTech(record) == Declares(record) /\ record.TechPrereq.text = tech_id
      kept == SelectSeq(records, ForTech)
  IN [n \in 1..Len(kept) |-> format_name(kept[n].zType.text, prefix)]
AllNames(records, prefix) ==
  {format_name(records[r].zType.text, prefix) :
     r \in {q \in DOMAIN records : Declares(records[q])}}
Elements(list) == {list[n] : n \in DOMAIN list}

\* what C8 says of one category: a tech of the exported model that records
\* declare lists exactly their names in declaration order, and a tech that
\* no record declares lists none of the table's names
ReverseIndexed(records, prefix, category) ==
  \A t \in DOMAIN Techs :
    LET own == NamesFor(records, prefix, Techs[t].id)
        listed == heap[Techs[t].unlocks][category]
    IN IF Len(own) > 0 THEN listed = own
       ELSE Elements(listed) \cap AllNames(records, prefix) = {}

\* C8 as stated: every unit and project record that declares a tech of the
\* exported model is listed by that tech and by no other, in declaration
\* order.
C8_ReverseIndexComplete ==
  Exported =>
    /\ ReverseIndexed(xml.tables["unit.xml"], <<"U","N","I","T","_">>, "units")
    /\ ReverseIndexed(xml.tables["project.xml"], <<"P","R","O","J","E","C","T","_">>, "projects")

\* the texts of the inputs that Python reads as an integer, with their value
IntegerTexts ==
     (<<"5">> :> 5) @@ (<<"-","3">> :> (0 - 3)) @@ (<<" ","7"," ">> :> 7) @@ (<<"1","_","0">> :> 10)
  @@ (<<"+","4">> :> 4) @@ (<<"0","0","7">> :> 7) @@ (<<"5","0">> :> 50) @@ (<<"1">> :> 1) @@ (<<"2">> :> 2)
ExpectedInt(elem) ==
  IF elem.present /\ elem.text \in DOMAIN IntegerTexts THEN IntegerTexts[elem.text]
  ELSE 0

\* the entries parse_techs keeps, in order
ParsedEntries ==
  LET HasId(entry) == HasText(entry.zType)
  IN SelectSeq(TechEntries, HasId)

\* C9: when parse_techs has read the table, every tech has the integer value
\* of its iCost, iRow and iColumn where the field holds an integer, and 0
\* where the field is missing, empty or no integer; the pass does not raise.
C9_IntFallback ==
  (pc = "parse_nations" /\ Exists("tech.xml")) =>
    /\ Len(techs) = Len(ParsedEntries)
    /\ \A k \in DOMAIN techs :
         /\ techs[k].cost = ExpectedInt(ParsedEntries[k].iCost)
         /\ techs[k].row = ExpectedInt(ParsedEntries[k].iRow)
         /\ techs[k].column = ExpectedInt(ParsedEntries[k].iColumn)

\* a tech parsed from an entry with a non-numeric cost, a non-numeric row
\* and an empty column
C9_Witness ==
  /\ pc = "parse_nations"
  /\ \E k \in DOMAIN techs :
       /\ Len(techs) = Len(ParsedEntries)
       /\ ParsedEntries[k].iCost = Elem(<<"a","b","c">>)
       /\ ParsedEntries[k].iRow = Elem(<<"x">>)
       /\ ParsedEntries[k].iColumn = EmptyElem
       /\ techs[k].cost = 0 /\ techs[k].row = 0 /\ techs[k].column = 0

\* C10 as stated: parse_bonuses never raises.
C10_MalformedNeverRaises == [][pc = "parse_bonuses" => pc' # "raised"]_vars

\* C11 as stated: every bonus tech of the exported model has a non-empty
\* bonus and a non-empty name.
C11_BonusAndNameNonEmpty ==
  Exported =>
    \A k \in DOMAIN BonusTechs :
      Len(BonusTechs[k].bonus) > 0 /\ Len(BonusTechs[k].name) > 0

\* the name parse_tech_node resolves for an entry, from the tag table alone
ResolvedName(i) ==
  IF HasText(TechEntries[i].Name)
  THEN DictGet(text_data, TechEntries[i].Name.text, tech_fallback_name(IdOf(i)))
  ELSE tech_fallback_name(IdOf(i))

\* the (name, bonus) pair the two rule chains give for an id, a resolved
\* name and a bonus-value table, and for nothing else
Classified(id, name, table) ==
  LET bonus_text == bonus_text_of([id |-> id, name |-> name], table)
  IN <<bonus_name_of([id |-> id, name |-> name], bonus_text), bonus_text>>

LoadedTable == IF IsNone(bonus_values) THEN EmptyDict ELSE Val(bonus_values)

WorkerCandidate(i) ==
  /\ tech_is_bonus(TechEntries[i])
  /\ ~HasMarker(IdOf(i))
  /\ Contains(<<"W","O","R","K","E","R">>, str_upper(IdOf(i)))
  /\ ~Contains(<<"S","T","O","N","E","C","U","T","T","I","N","G">>, str_upper(IdOf(i)))

\* C13: a run whose bonus candidates are all worker candidates does not
\* raise in identify_bonus_techs, and every worker candidate is in the
\* exported bonusTechs with bonus "+1 Worker" and name "Free Worker",
\* whether bonus.xml is missing, empty or holds values for the tech.
C13_WorkerScenario ==
  /\ (pc = "raised" /\ IsNone(bonus_values)) =>
       \E i \in Identified : tech_is_bonus(TechEntries[i]) /\ ~WorkerCandidate(i)
  /\ Exported =>
       \A i \in UniqueEntries :
         WorkerCandidate(i) =>
           /\ Cardinality(BonusOf(IdOf(i))) = 1
           /\ \A k \in BonusOf(IdOf(i)) :
                /\ BonusTechs[k].bonus = <<"+","1"," ","W","o","r","k","e","r">>
                /\ BonusTechs[k].name = <<"F","r","e","e"," ","W","o","r","k","e","r">>

\* a worker candidate whose id also matches the FOOD rule, exported without
\* bonus.xml
C13_Witness ==
  /\ Exported
  /\ \E i \in UniqueEntries :
       /\ WorkerCandidate(i)
       /\ Contains(<<"F","O","O","D">>, IdOf(i))
       /\ ~Exists("bonus.xml")
       /\ \E k \in BonusOf(IdOf(i)) : BonusTechs[k].bonus = <<"+","1"," ","W","o","r","k","e","r">>

\* a flag field that is the value "1": its value attribute when it has one,
\* else its text
FlagIsOne(flag) ==
  /\ flag.present
  /\ IF Len(flag.value) > 0 THEN flag.value = <<"1">> ELSE flag.text = <<"1">>
Candidate(entry) ==
  FlagIsOne(entry.bHide) \/ FlagIsOne(entry.bTrash) \/ FlagIsOne(entry.bNoFree)

\* C14: parse_techs marks a tech as a bonus candidate iff one of bHide,
\* bTrash, bNoFree is the value "1"; in the exported model only candidates
\* are in bonusTechs, and a tech that is no candidate is in techs and not in
\* bonusTechs, whatever its id contains.
C14_BonusOnlyIfFlagged ==
  /\ (pc = "parse_nations" /\ Exists("tech.xml")) =>
       /\ Len(techs) = Len(ParsedEntries)
       /\ \A k \in DOMAIN techs : techs[k].isBonus <=> Candidate(ParsedEntries[k])
  /\ Exported =>
       \A i \in UniqueEntries :
         /\ Occurrences(BonusTechs, IdOf(i)) > 0 => Candidate(TechEntries[i])
         /\ ~Candidate(TechEntries[i]) =>
              /\ Occurrences(Techs, IdOf(i)) = 1
              /\ Occurrences(BonusTechs, IdOf(i)) = 0

\* a tech in the exported techs whose id matches the WORKER rule and whose
\* bTrash is present with a text that is not "1"
C14_Witness ==
  /\ Exported
  /\ \E i \in UniqueEntries :
       /\ ~Candidate(TechEntries[i])
       /\ HasText(TechEntries[i].bTrash)
       /\ Contains(<<"W","O","R","K","E","R">>, IdOf(i))
       /\ Occurrences(Techs, IdOf(i)) = 1

NationData == Val(data).nationData
WithNation(bonus) == "nation" \in DOMAIN bonus
\* the ids of the bonus techs of nation N, in bonusTechs order
BonusIdsOf(N) ==
  LET OfNation(bonus) == WithNation(bonus) /\ bonus.nation = N
      kept == SelectSeq(BonusTechs, OfNation)
  IN [n \in 1..Len(kept) |-> kept[n].id]

\* C15: the keys of nationSpecificBonuses are the nations of the bonus techs,
\* and the list of a nation is the ids of its bonus techs in bonusTechs
\* order; a nation without a bonus tech is no key, also when it is a key of
\* startingTechs.
C15_NationSpecificBonuses ==
  Exported =>
    /\ DOMAIN NationData.nationSpecificBonuses =
         {BonusTechs[k].nation : k \in {l \in DOMAIN BonusTechs : WithNation(BonusTechs[l])}}
    /\ \A N \in DOMAIN NationData.nationSpecificBonuses :
         NationData.nationSpecificBonuses[N] = BonusIdsOf(N)

\* a model with two bonus techs of one nation and a nation with starting
\* techs, none of whose bonus techs is of that nation
C15_Witness ==
  /\ Exported
  /\ \E N \in DOMAIN NationData.nationSpecificBonuses :
       /\ Len(NationData.nationSpecificBonuses[N]) = 2
       /\ NationData.nationSpecificBonuses[N][1] # NationData.nationSpecificBonuses[N][2]
  /\ \E N \in DOMAIN NationData.startingTechs :
       N \notin DOMAIN NationData.nationSpecificBonuses

Categories == {"units", "improvements", "laws", "projects", "specialists", "other"}
NoRepeats(list) == \A m, n \in DOMAIN list : list[m] = list[n] => m = n

\* no two records of the table have the same zType
DistinctRecords(records) ==
  \A m, n \in DOMAIN records : records[m].zType = records[n].zType => m = n

\* C16 as stated: when no record of the unit table or of the project table
\* is declared twice, no unlock list of a tech of the exported model holds
\* the same display name twice.
C16_NoDuplicateUnlocks ==
  (/\ Exported
   /\ DistinctRecords(xml.tables["unit.xml"])
   /\ DistinctRecords(xml.tables["project.xml"])) =>
    \A t \in DOMAIN Techs : \A category \in Categories :
      NoRepeats(heap[Techs[t].unlocks][category])

\* the default unlocks of a tech entry: those of the effectPlayer entry it
\* names (the last of that id), or none
EffectsNamed(entry) ==
  {e \in DOMAIN xml.tables["effectPlayer.xml"] :
     /\ HasText(entry.EffectPlayer)
     /\ xml.tables["effectPlayer.xml"][e].zType = entry.EffectPlayer}
Greatest(S) == CHOOSE n \in S : \A m \in S : m <= n
DefaultUnlocks(entry) ==
  IF EffectsNamed(entry) = {} THEN NoUnlocks
  ELSE effect_unlocks(xml.tables["effectPlayer.xml"][Greatest(EffectsNamed(entry))])

\* what C17 says of one category of tech k after the four passes: the list
\* of the later source when it has one for the tech's id, else the default
Overwritten(k, category, source) ==
  heap[techs[k].unlocks][category] =
    IF Len(source) > 0 THEN source ELSE DefaultUnlocks(ParsedEntries[k])[category]

\* C17 as stated: when the four unlock passes have run on their tables, each
\* category of each tech is exactly the curated list or the reverse-index
\* list for the tech's id if there is one, and the effect-player default
\* otherwise.
C17_OverwriteNotMerge ==
  (/\ pc = "identify_bonus_techs"
   /\ {"tech.xml", "effectPlayer.xml", "unit.xml", "improvement.xml", "law.xml",
       "project.xml"} \subseteq xml.files) =>
    \A k \in DOMAIN techs :
      /\ Overwritten(k, "improvements",
                     DictGet(manual_improvement_mapping, techs[k].id, <<>>))
      /\ Overwritten(k, "laws", DictGet(manual_law_mapping, techs[k].id, <<>>))
      /\ Overwritten(k, "units", NamesFor(xml.tables["unit.xml"], <<"U","N","I","T","_">>, techs[k].id))
      /\ Overwritten(k, "projects",
                     NamesFor(xml.tables["project.xml"], <<"P","R","O","J","E","C","T","_">>, techs[k].id))
      /\ Overwritten(k, "specialists", <<>>)

\* the tag table after the three text loads, in the order of parse_all
TextFiles == <<"text-infos.xml", "text-nation.xml", "text-bonus.xml">>
RECURSIVE LoadedTexts(_)
LoadedTexts(n) ==
  IF n = 0 THEN EmptyDict
  ELSE IF Exists(TextFiles[n])
       THEN load_text(xml.tables[TextFiles[n]], LoadedTexts(n - 1))
       ELSE LoadedTexts(n - 1)

\* the steps of a run that come before the end of the third text load
TextSteps == {"main", "parse_text_infos", "parse_text_nation", "parse_text_bonus"}

\* C18: in every run of parse_all, from the step that makes the first lookup
\* in the tag table (parse_techs) on, the table is the result of the three
\* text loads: they are complete before the first lookup, and the table is
\* not written afterwards.
C18_TextsBeforeLookups ==
  (xml.dir /\ pc \notin TextSteps) => text_data = LoadedTexts(3)

\* parse_techs has resolved a name in a table that the third load changed
C18_Witness ==
  /\ pc = "parse_nations"
  /\ \A n \in 1..3 : Exists(TextFiles[n]) /\ LoadedTexts(n) # LoadedTexts(n - 1)
  /\ \E k \in DOMAIN techs :
       /\ HasText(ParsedEntries[k].Name)
       /\ ParsedEntries[k].Name.text \in DOMAIN text_data
       /\ techs[k].name = text_data[ParsedEntries[k].Name.text]
       /\ techs[k].name # LoadedTexts(2)[ParsedEntries[k].Name.text]

\* the ids an entry declares as prerequisites with the value "1", in the
\* order of the declaration
Nth(S, n) == CHOOSE p \in S : Cardinality({q \in S : q < p}) = n - 1
DeclaredPrereqs(i) ==
  [n \in 1..Cardinality(PrereqPairs(i)) |->
     TechEntries[i].abTechPrereq.items[Nth(PrereqPairs(i), n)].zIndex.text]
ExportedAs(id) == {k \in DOMAIN Techs : Techs[k].id = id}

\* C19: the prereqs of a tech of the exported `techs` are the ids of the
\* Pairs of its entry whose bValue is exactly "1", in declaration order and
\* as declared, a self-reference or a cycle included.
C19_PrereqsAsDeclared ==
  Exported =>
    \A i \in UniqueEntries : \A k \in ExportedAs(IdOf(i)) :
      Techs[k].prereqs = DeclaredPrereqs(i)

\* one exported tech names itself and a second tech that names it back; the
\* second entry also declares a Pair with the value "0", which is not kept
C19_Witness ==
  /\ Exported
  /\ \E i, j \in UniqueEntries : \E k \in ExportedAs(IdOf(i)) : \E l \in ExportedAs(IdOf(j)) :
       /\ k # l
       /\ Techs[k].prereqs = <<Techs[k].id, Techs[l].id>>
       /\ Techs[l].prereqs = <<Techs[k].id>>
       /\ Len(TechEntries[j].abTechPrereq.items) = 2

\* the economy rules with a numeric effect: the yield, the word of the
\* effect and the fixed default
EconomyEffects ==
  {[yield |-> <<"s","t","o","n","e">>, label |-> <<"S","t","o","n","e">>, default |-> <<"+","2","0","0"," ","S","t","o","n","e">>],
   [yield |-> <<"f","o","o","d">>, label |-> <<"F","o","o","d">>, default |-> <<"+","2","0","0"," ","F","o","o","d">>],
   [yield |-> <<"o","r","d","e","r","s">>, label |-> <<"O","r","d","e","r","s">>, default |-> <<"+","2","0"," ","O","r","d","e","r","s">>],
   [yield |-> <<"m","o","n","e","y">>, label |-> <<"M","o","n","e","y">>, default |-> <<"+","2","0","0"," ","M","o","n","e","y">>],
   [yield |-> <<"c","i","v","i","c","s">>, label |-> <<"C","i","v","i","c","s">>, default |-> <<"C","i","v","i","c"," ","P","o","i","n","t","s">>],
   [yield |-> <<"t","r","a","i","n","i","n","g">>, label |-> <<"T","r","a","i","n","i","n","g">>, default |-> <<"U","n","i","t"," ","T","r","a","i","n","i","n","g">>]}

\* the economy rule that classifies an id, if one does
EconomyRuleOf(id) ==
  {e \in EconomyEffects :
     LET k == first_match(bonus_text_rules, 1, id)
     IN k > 0 /\ bonus_text_rules[k].kind = "yield" /\ bonus_text_rules[k].yield = e.yield}

\* the value the bonus table holds for a tech and a yield: that of the last
\* Pair of the yield in the last entry BONUS_<techId>, 0 when there is none
BonusEntries(id) ==
  {b \in DOMAIN xml.tables["bonus.xml"] :
     /\ HasText(xml.tables["bonus.xml"][b].zType)
     /\ xml.tables["bonus.xml"][b].zType.text = <<"B","O","N","U","S","_">> \o id}
YieldPairsOf(b, yield) ==
  LET pairs == xml.tables["bonus.xml"][b].aiGlobalYields.items
  IN {p \in DOMAIN pairs :
        /\ HasText(pairs[p].zIndex) /\ HasText(pairs[p].iValue)
        /\ str_lower(str_replace(pairs[p].zIndex.text, <<"Y","I","E","L","D","_">>, <<>>)) = yield}
HeldValue(id, yield) ==
  IF BonusEntries(id) = {} THEN 0
  ELSE LET b == Greatest(BonusEntries(id))
       IN IF YieldPairsOf(b, yield) = {} THEN 0
          ELSE Val(int(xml.tables["bonus.xml"][b].aiGlobalYields
                         .items[Greatest(YieldPairsOf(b, yield))].iValue.text))

\* C20: with the bonus-value table loaded, the effect of a bonus tech that
\* an economy rule classifies is "+N <Yield>" when the entry BONUS_<techId>
\* holds a positive N for the yield, and the rule's fixed default when the
\* entry or the yield is absent or the value is 0 or negative.
C20_EconomyEffect ==
  (Exported /\ Exists("bonus.xml")) =>
    \A i \in UniqueEntries : \A k \in BonusOf(IdOf(i)) : \A e \in EconomyRuleOf(IdOf(i)) :
      BonusTechs[k].bonus =
        IF HeldValue(IdOf(i), e.yield) > 0
        THEN <<"+">> \o IntStr(HeldValue(IdOf(i), e.yield)) \o <<" ">> \o e.label
        ELSE e.default

\* the money rule gives "+35 Money" from an entry that holds a negative
\* value for the yield first and 35 after it
C20_Witness ==
  /\ Exported
  /\ Exists("bonus.xml")
  /\ \E i \in UniqueEntries : \E k \in BonusOf(IdOf(i)) : \E e \in EconomyRuleOf(IdOf(i)) :
       /\ e.yield = <<"m","o","n","e","y">>
       /\ BonusEntries(IdOf(i)) # {}
       /\ Cardinality(YieldPairsOf(Greatest(BonusEntries(IdOf(i))), e.yield)) = 2
       /\ BonusTechs[k].bonus = <<"+","3","5"," ","M","o","n","e","y">>

\* two rules of the two chains are the same rule when they test the same
\* patterns; the label of a rule of the effect chain is the text its
\* counterpart in the label chain gives
SameRule(r, s) == r.all = s.all /\ r.none = s.none /\ r.raw = s.raw
Counterpart(r) == CHOOSE n \in DOMAIN bonus_name_rules : SameRule(bonus_name_rules[n], r)
LabelOf(r, bonus_text) ==
  IF r.raw THEN bonus_text ELSE bonus_name_rules[Counterpart(r)].text

\* C21 as stated: the label of a bonus tech is the label of the rule that
\* gave its effect, the first rule of the ordered list that matches its id;
\* where no rule matches, both are the tech's name.
C21_SameRuleForBoth ==
  Exported =>
    \A i \in UniqueEntries : \A k \in BonusOf(IdOf(i)) :
      LET r == first_match(bonus_text_rules, 1, IdOf(i))
      IN BonusTechs[k].name =
           IF r = 0 THEN BonusTechs[k].bonus
           ELSE LabelOf(bonus_text_rules[r], BonusTechs[k].bonus)

\* the specific variants of the generic ORDERS, ARCHER and CHARIOT rules,
\* each with the effect of its own rule
ArcherVariants ==
  {<<"C","A","M","E","L","_","A","R","C","H","E","R">>, <<"H","O","R","S","E","_","A","R","C","H","E","R">>, <<"A","K","K","A","D","I","A","N">>, <<"C","I","M","M","E","R","I","A","N">>, <<"M","E","D","J","A","Y">>,
   <<"B","E","J","A">>, <<"C","A","T","A","P","H","R","A","C","T">>}
ChariotVariants == {<<"L","I","G","H","T","_","C","H","A","R","I","O","T">>, <<"H","I","T","T","I","T","E","_","C","H","A","R","I","O","T">>}
OwnEffects(variant) ==
  CASE variant = <<"B","O","R","D","E","R","S">> -> {<<"B","o","r","d","e","r"," ","G","r","o","w","t","h">>}
    [] variant = <<"C","A","M","E","L","_","A","R","C","H","E","R">> -> {<<"+","1"," ","C","a","m","e","l"," ","A","r","c","h","e","r">>}
    [] variant = <<"H","O","R","S","E","_","A","R","C","H","E","R">> -> {<<"+","1"," ","H","o","r","s","e"," ","A","r","c","h","e","r">>}
    [] variant = <<"A","K","K","A","D","I","A","N">> -> {<<"+","1"," ","A","k","k","a","d","i","a","n"," ","A","r","c","h","e","r">>}
    [] variant = <<"C","I","M","M","E","R","I","A","N">> -> {<<"+","2"," ","C","i","m","m","e","r","i","a","n"," ","A","r","c","h","e","r">>}
    [] variant = <<"M","E","D","J","A","Y">> -> {<<"+","1"," ","M","e","d","j","a","y">>}
    [] variant = <<"B","E","J","A">> -> {<<"+","2"," ","B","e","j","a"," ","A","r","c","h","e","r">>}
    [] variant = <<"C","A","T","A","P","H","R","A","C","T">> -> {<<"+","2"," ","C","a","t","a","p","h","r","a","c","t"," ","A","r","c","h","e","r">>}
    [] variant = <<"L","I","G","H","T","_","C","H","A","R","I","O","T">> -> {<<"+","1"," ","L","i","g","h","t"," ","C","h","a","r","i","o","t">>}
    [] variant = <<"H","I","T","T","I","T","E","_","C","H","A","R","I","O","T">> -> {<<"+","1"," ","H","i","t","t","i","t","e"," ","C","h","a","r","i","o","t">>, <<"+","2"," ","H","i","t","t","i","t","e"," ","C","h","a","r","i","o","t">>}

\* the rule of the effect chain that tests for a variant, and whether a rule
\* before it matches the id
RuleFor(variant) ==
  CHOOSE n \in DOMAIN bonus_text_rules : bonus_text_rules[n].all = {variant}
NoEarlierRule(variant, id) ==
  \A n \in 1..(RuleFor(variant) - 1) : ~rule_matches(bonus_text_rules[n], id)
Holds(variant, id) == Contains(variant, str_upper(id))

\* C22: a bonus tech whose id holds BORDERS never has the Orders effect, one
\* whose id holds an archer variant never has "+1 Archer", one whose id
\* holds LIGHT_CHARIOT or HITTITE_CHARIOT never has "+1 Chariot"; and where
\* no earlier rule matches, a variant has the effect of its own rule.
C22_GuardedPatterns ==
  Exported =>
    \A i \in UniqueEntries : \A k \in BonusOf(IdOf(i)) :
      /\ Holds(<<"B","O","R","D","E","R","S">>, IdOf(i)) => BonusTechs[k].bonus # <<"+","2","0"," ","O","r","d","e","r","s">>
      /\ \A v \in ArcherVariants :
           Holds(v, IdOf(i)) => BonusTechs[k].bonus # <<"+","1"," ","A","r","c","h","e","r">>
      /\ \A v \in ChariotVariants :
           Holds(v, IdOf(i)) => BonusTechs[k].bonus # <<"+","1"," ","C","h","a","r","i","o","t">>
      /\ \A v \in {<<"B","O","R","D","E","R","S">>} \cup ArcherVariants \cup ChariotVariants :
           (Holds(v, IdOf(i)) /\ NoEarlierRule(v, IdOf(i)))
             => BonusTechs[k].bonus \in OwnEffects(v)

\* a camel archer and a Hittite chariot have the effect of their own rule
C22_Witness ==
  /\ Exported
  /\ \E i \in UniqueEntries : \E k \in BonusOf(IdOf(i)) : \E v \in {<<"C","A","M","E","L","_","A","R","C","H","E","R">>, <<"H","I","T","T","I","T","E","_","C","H","A","R","I","O","T">>} :
       /\ Holds(v, IdOf(i))
       /\ Holds(<<"A","R","C","H","E","R">>, IdOf(i)) \/ Holds(<<"C","H","A","R","I","O","T">>, IdOf(i))
       /\ NoEarlierRule(v, IdOf(i))
       /\ BonusTechs[k].bonus \in OwnEffects(v)

\* the category an unlock pass writes and the mapping it writes it from
UnlockSteps ==
  {"parse_unit_unlocks", "parse_improvement_unlocks", "parse_law_unlocks",
   "parse_project_unlocks"}
WrittenCategory ==
  CASE pc = "parse_unit_unlocks" -> "units"
    [] pc = "parse_improvement_unlocks" -> "improvements"
    [] pc = "parse_law_unlocks" -> "laws"
    [] pc = "parse_project_unlocks" -> "projects"
WrittenFrom ==
  CASE pc = "parse_unit_unlocks" -> reverse_index(xml.tables["unit.xml"], <<"U","N","I","T","_">>, EmptyDict)
    [] pc = "parse_improvement_unlocks" -> manual_improvement_mapping
    [] pc = "parse_law_unlocks" -> manual_law_mapping
    [] pc = "parse_project_unlocks" ->
         reverse_index(xml.tables["project.xml"], <<"P","R","O","J","E","C","T","_">>, EmptyDict)

\* what C23 says of one step
FramedStep ==
  pc \in UnlockSteps =>
    \A k \in DOMAIN techs : \A c \in DOMAIN heap[techs[k].unlocks] :
      heap'[techs[k].unlocks][c] # heap[techs[k].unlocks][c] =>
        /\ c = WrittenCategory
        /\ techs[k].id \in DOMAIN WrittenFrom
        /\ heap'[techs[k].unlocks][c] = WrittenFrom[techs[k].id]

\* C23 as stated: a step of an unlock pass changes category C of the unlocks
\* of tech T only if C is the category of the pass and the pass has a list
\* for the id of T, which is then the new value; the unlocks of every other
\* tech are as before the step.
C23_UnlockFrame == [][FramedStep]_vars

\* the entries parse_techs keeps that go to the main techs and those that
\* become bonus techs, each in the order of the table
MainRecords ==
  LET IsMain(entry) ==
        \/ ~Candidate(entry)
        \/ HasVictoryMarker(entry.zType.text)
  IN SelectSeq(ParsedEntries, IsMain)
BonusRecords ==
  LET IsBonus(entry) == Candidate(entry) /\ ~HasMarker(entry.zType.text)
  IN SelectSeq(ParsedEntries, IsBonus)

\* C24: the exported techs and the exported bonusTechs are, position by
\* position, the main and the bonus records of the technology table in the
\* order of the table, and each bonusTechs entry has the id and the cost of
\* its record.
C24_StablePartition ==
  Exported =>
    /\ Len(Techs) = Len(MainRecords)
    /\ \A k \in DOMAIN Techs :
         /\ Techs[k].id = MainRecords[k].zType.text
         /\ Techs[k].cost = get_int_value(MainRecords[k], "iCost", 0)
    /\ Len(BonusTechs) = Len(BonusRecords)
    /\ \A k \in DOMAIN BonusTechs :
         /\ BonusTechs[k].id = BonusRecords[k].zType.text
         /\ BonusTechs[k].cost = get_int_value(BonusRecords[k], "iCost", 0)

\* two main techs and two bonus techs of different costs that alternate in
\* the table, the first bonus tech standing before the first main tech
C24_Witness ==
  /\ Exported
  /\ Len(Techs) = 2 /\ Len(BonusTechs) = 2
  /\ Techs[1].cost # Techs[2].cost
  /\ BonusTechs[1].cost # BonusTechs[2].cost
  /\ \E a, b, c, d \in DOMAIN TechEntries :
       /\ a < b /\ b < c /\ c < d
       /\ TechEntries[a].zType.text = BonusTechs[1].id
       /\ TechEntries[b].zType.text = Techs[1].id
       /\ TechEntries[c].zType.text = BonusTechs[2].id
       /\ TechEntries[d].zType.text = Techs[2].id
====
